---- MODULE Spec2Model ----
(***************************************************************************)
(* Model of the paged election verifier                                    *)
(* (frame/election-provider-multi-block/src/verifier/pallet.rs).           *)
(*                                                                         *)
(* Storage items are the variables, under the names the pallet gives them. *)
(* An Option<T> is a sequence of length 0 (None) or 1 (Some), a storage    *)
(* map is a function whose domain is the set of keys present.              *)
(***************************************************************************)
EXTENDS Integers, Sequences, FiniteSets, TLC

VARIABLES
    VerifyingSolutionStorage,   \* StorageMap PageIndex -> SolutionOf<T>
    VerifyingSolutionPage,      \* StorageValue Option<PageIndex>: the cursor
    VerifyingSolutionScore,     \* StorageValue Option<ElectionScore>: claimed score
    QueuedSolutionX,            \* StorageMap PageIndex -> Supports
    QueuedSolutionY,            \* StorageMap PageIndex -> Supports
    QueuedValidVariant,         \* StorageValue ValidSolution, ValueQuery
    QueuedSolutionBackings,     \* StorageMap PageIndex -> Vec<(AccountId, ExtendedBalance)>
    QueuedSolutionScore,        \* StorageValue Option<ElectionScore>
    MinimumUntrustedScore,      \* StorageValue Option<ElectionScore>
    snapshot,                   \* crate::Snapshot: targets, paged voters, desired targets
    trapped,                    \* a panic (failed assertion or unwrap) ended execution
    ticks,                      \* history: pages the hook has taken up since the last successful seal
    sealedView,                 \* history: the queued solution as read when the candidate was sealed
    sealedFloor,                \* history: MinimumUntrustedScore when the candidate was sealed
    lastRound                   \* history: how the last candidate ended, "none" until one has

vars == <<VerifyingSolutionStorage, VerifyingSolutionPage, VerifyingSolutionScore,
          QueuedSolutionX, QueuedSolutionY, QueuedValidVariant, QueuedSolutionBackings,
          QueuedSolutionScore, MinimumUntrustedScore, snapshot, trapped, ticks,
          sealedView, sealedFloor, lastRound>>

verifyingVars == <<VerifyingSolutionStorage, VerifyingSolutionPage, VerifyingSolutionScore>>
queuedVars == <<QueuedSolutionX, QueuedSolutionY, QueuedValidVariant, QueuedSolutionBackings,
                QueuedSolutionScore>>

(***************************************************************************)
(* Configuration and bounds.                                               *)
(***************************************************************************)
\* T::Pages of the mock runtime, as the tests configure it.
Pages == 3
\* Stand-in for ExtendedBalance::max_value(): where saturating sums stop.
BalanceCap == 1000
\* T::SolutionImprovementThreshold, in percent.
ThresholdPercent == 0
\* T::MaxTotalBackingsPerTarget: voters that may back one target over all pages.
MaxTotalBackingsPerTarget == 2

None == << >>
Some(x) == <<x>>
IsSome(o) == Len(o) = 1
Unwrap(o) == o[1]

PageRange == 0 .. (Pages - 1)
\* crate::Pallet::msp(): the most significant page, the first to be verified.
msp == Pages - 1

EmptyMap == [k \in {} |-> 0]
MapInsert(m, k, v) == [x \in (DOMAIN m) \cup {k} |-> IF x = k THEN v ELSE m[x]]

Min(a, b) == IF a < b THEN a ELSE b
saturating_add(a, b) == Min(a + b, BalanceCap)
saturating_mul(a, b) == Min(a * b, BalanceCap)

RECURSIVE SortedSeq(_)
SortedSeq(S) ==
    IF S = {} THEN << >>
    ELSE LET m == CHOOSE x \in S : \A y \in S : x <= y
         IN  <<m>> \o SortedSeq(S \ {m})

Range(s) == {s[i] : i \in 1 .. Len(s)}

RECURSIVE SumSeq(_)
SumSeq(s) == IF s = << >> THEN 0 ELSE saturating_add(Head(s), SumSeq(Tail(s)))

(***************************************************************************)
(* The snapshot (crate::Snapshot).  Targets are account ids; each page of  *)
(* voters is a sequence of <<voter, stake, eligible targets>>.  Indices of *)
(* a solution are 0-based positions in these sequences.                    *)
(***************************************************************************)
SnapshotTargets == <<10, 20>>
SnapshotVoters ==
    [p \in PageRange |->
        CASE p = 0 -> << <<1, 3, {10, 20}>>, <<2, 1, {20}>> >>
          [] p = 1 -> << <<3, 2, {10}>>,     <<4, 2, {10, 20}>> >>
          [] OTHER -> << <<5, 1, {10, 20}>>, <<6, 1, {20}>> >>]
DesiredTargets == 2

FullSnapshot ==
    [targets |-> Some(SnapshotTargets), voters |-> SnapshotVoters, desired |-> Some(DesiredTargets)]
NoSnapshot ==
    [targets |-> None, voters |-> EmptyMap, desired |-> None]

\* Snapshot::targets(), Snapshot::voters(page), Snapshot::desired_targets()
targets(snap) == snap.targets
voters(snap, page) == IF page \in DOMAIN snap.voters THEN Some(snap.voters[page]) ELSE None
desired_targets(snap) == snap.desired

(***************************************************************************)
(* Partial solutions.  A page of SolutionOf<T> is modelled by its votes1   *)
(* entries: a sequence of <<voter index, target index>>, each giving the   *)
(* voter's whole stake to one target.  The default solution is empty.      *)
(***************************************************************************)
DefaultSolution == << >>
SolA == << <<0, 0>>, <<1, 1>> >>
SolB == << <<0, 1>> >>
SolBadWinner == << <<0, 2>> >>
SolBadVoter == << <<2, 0>> >>
SolBadVote == << <<1, 0>> >>

(***************************************************************************)
(* feasibility_check_page_inner.                                           *)
(***************************************************************************)
\* helpers::target_at_fn / helpers::voter_at_fn: position -> identity, if in range
target_at(snapshot_targets, i) ==
    IF i >= 0 /\ i < Len(snapshot_targets) THEN Some(snapshot_targets[i + 1]) ELSE None
voter_at(snapshot_voters, i) ==
    IF i >= 0 /\ i < Len(snapshot_voters) THEN Some(snapshot_voters[i + 1][1]) ELSE None
\* helpers::generate_voter_cache + voter_index_fn_usize: identity -> position
voter_index(snapshot_voters, who) ==
    LET hits == {i \in 1 .. Len(snapshot_voters) : snapshot_voters[i][1] = who}
    IN  IF hits = {} THEN None ELSE Some((CHOOSE i \in hits : TRUE) - 1)
\* helpers::stake_of_fn
stake_of(snapshot_voters, who) ==
    LET ix == voter_index(snapshot_voters, who)
    IN  IF IsSome(ix) THEN snapshot_voters[Unwrap(ix) + 1][2] ELSE 0

\* NposSolution::unique_targets: the target indices used, sorted, without duplicates
unique_targets(solution) == SortedSeq({solution[i][2] : i \in 1 .. Len(solution)})

\* NposSolution::into_assignment: index pairs to <<who, target>>; None on a bad index
into_assignment(solution, snapshot_voters, snapshot_targets) ==
    IF \E i \in 1 .. Len(solution) :
           \/ voter_at(snapshot_voters, solution[i][1]) = None
           \/ target_at(snapshot_targets, solution[i][2]) = None
    THEN None
    ELSE Some([i \in 1 .. Len(solution) |->
                 [who |-> Unwrap(voter_at(snapshot_voters, solution[i][1])),
                  target |-> Unwrap(target_at(snapshot_targets, solution[i][2]))]])

\* assignment_ratio_to_staked_normalized: the single edge of each voter gets its stake
assignment_ratio_to_staked_normalized(assignments, snapshot_voters) ==
    [i \in 1 .. Len(assignments) |->
        [who |-> assignments[i].who, target |-> assignments[i].target,
         weight |-> stake_of(snapshot_voters, assignments[i].who)]]

RECURSIVE SelectEdges(_, _)
SelectEdges(staked, w) ==
    IF staked = << >> THEN << >>
    ELSE (IF Head(staked).target = w
          THEN << <<Head(staked).who, Head(staked).weight>> >>
          ELSE << >>) \o SelectEdges(Tail(staked), w)

\* to_supports: one Support (total, voters) per winner, in winner order
to_supports(winners, staked) ==
    [k \in 1 .. Len(winners) |->
        LET edges == SelectEdges(staked, winners[k])
        IN  <<winners[k],
              [total |-> SumSeq([j \in 1 .. Len(edges) |-> edges[j][2]]), voters |-> edges]>>]

Ok(x) == [ok |-> TRUE, err |-> "", val |-> x]
Err(e) == [ok |-> FALSE, err |-> e, val |-> << >>]

\* mutant: the voter snapshot of every page is required, not only that of the page checked
feasibility_check_page_inner_all_voters(snap, partial_solution, page) ==
    IF targets(snap) = None \/ \E p \in PageRange : voters(snap, p) = None
    THEN Err("SnapshotUnavailable")
    ELSE
      LET snapshot_targets == Unwrap(targets(snap))
          snapshot_voters == Unwrap(voters(snap, page))
          winner_ixs == unique_targets(partial_solution)
      IN
      IF \E k \in 1 .. Len(winner_ixs) : target_at(snapshot_targets, winner_ixs[k]) = None
      THEN Err("InvalidWinner")
      ELSE
        LET winners == [k \in 1 .. Len(winner_ixs) |->
                           Unwrap(target_at(snapshot_targets, winner_ixs[k]))]
            maybe_assignments ==
                into_assignment(partial_solution, snapshot_voters, snapshot_targets)
        IN
        IF maybe_assignments = None
        THEN Err("SolutionInvalidIndex")
        ELSE
          LET assignments == Unwrap(maybe_assignments)
              \* the per-assignment check, in order; the first failure is returned
              check(i) ==
                  LET ix == voter_index(snapshot_voters, assignments[i].who)
                  IN  IF ix = None THEN "InvalidVoter"
                      ELSE IF assignments[i].target \notin snapshot_voters[Unwrap(ix) + 1][3]
                           THEN "InvalidVote"
                           ELSE ""
              failing == {i \in 1 .. Len(assignments) : check(i) /= ""}
          IN
          IF failing /= {}
          THEN Err(check(CHOOSE i \in failing : \A j \in failing : i <= j))
          ELSE
            LET staked == assignment_ratio_to_staked_normalized(assignments, snapshot_voters)
            IN  Ok(to_supports(winners, staked))

\* mutant: an out-of-range winner is left to the assignment conversion
feasibility_check_page_inner_lenient_winners(snap, partial_solution, page) ==
    IF targets(snap) = None \/ voters(snap, page) = None
    THEN Err("SnapshotUnavailable")
    ELSE
      LET snapshot_targets == Unwrap(targets(snap))
          snapshot_voters == Unwrap(voters(snap, page))
          winner_ixs == unique_targets(partial_solution)
      IN
      IF FALSE
      THEN Err("InvalidWinner")
      ELSE
        LET winners == [k \in 1 .. Len(winner_ixs) |->
                           IF target_at(snapshot_targets, winner_ixs[k]) = None THEN 0
                           ELSE Unwrap(target_at(snapshot_targets, winner_ixs[k]))]
            maybe_assignments ==
                into_assignment(partial_solution, snapshot_voters, snapshot_targets)
        IN
        IF maybe_assignments = None
        THEN Err("SolutionInvalidIndex")
        ELSE
          LET assignments == Unwrap(maybe_assignments)
              \* the per-assignment check, in order; the first failure is returned
              check(i) ==
                  LET ix == voter_index(snapshot_voters, assignments[i].who)
                  IN  IF ix = None THEN "InvalidVoter"
                      ELSE IF assignments[i].target \notin snapshot_voters[Unwrap(ix) + 1][3]
                           THEN "InvalidVote"
                           ELSE ""
              failing == {i \in 1 .. Len(assignments) : check(i) /= ""}
          IN
          IF failing /= {}
          THEN Err(check(CHOOSE i \in failing : \A j \in failing : i <= j))
          ELSE
            LET staked == assignment_ratio_to_staked_normalized(assignments, snapshot_voters)
            IN  Ok(to_supports(winners, staked))

\* mutant: a voter index out of range is reported as InvalidVoter
feasibility_check_page_inner_invalid_voter(snap, partial_solution, page) ==
    IF targets(snap) = None \/ voters(snap, page) = None
    THEN Err("SnapshotUnavailable")
    ELSE
      LET snapshot_targets == Unwrap(targets(snap))
          snapshot_voters == Unwrap(voters(snap, page))
          winner_ixs == unique_targets(partial_solution)
      IN
      IF \E k \in 1 .. Len(winner_ixs) : target_at(snapshot_targets, winner_ixs[k]) = None
      THEN Err("InvalidWinner")
      ELSE
        LET winners == [k \in 1 .. Len(winner_ixs) |->
                           Unwrap(target_at(snapshot_targets, winner_ixs[k]))]
            maybe_assignments ==
                into_assignment(partial_solution, snapshot_voters, snapshot_targets)
        IN
        IF maybe_assignments = None
        THEN Err("InvalidVoter")
        ELSE
          LET assignments == Unwrap(maybe_assignments)
              \* the per-assignment check, in order; the first failure is returned
              check(i) ==
                  LET ix == voter_index(snapshot_voters, assignments[i].who)
                  IN  IF ix = None THEN "InvalidVoter"
                      ELSE IF assignments[i].target \notin snapshot_voters[Unwrap(ix) + 1][3]
                           THEN "InvalidVote"
                           ELSE ""
              failing == {i \in 1 .. Len(assignments) : check(i) /= ""}
          IN
          IF failing /= {}
          THEN Err(check(CHOOSE i \in failing : \A j \in failing : i <= j))
          ELSE
            LET staked == assignment_ratio_to_staked_normalized(assignments, snapshot_voters)
            IN  Ok(to_supports(winners, staked))

\* mutant: a vote counts as valid when its target is any target of the snapshot
feasibility_check_page_inner_any_target(snap, partial_solution, page) ==
    IF targets(snap) = None \/ voters(snap, page) = None
    THEN Err("SnapshotUnavailable")
    ELSE
      LET snapshot_targets == Unwrap(targets(snap))
          snapshot_voters == Unwrap(voters(snap, page))
          winner_ixs == unique_targets(partial_solution)
      IN
      IF \E k \in 1 .. Len(winner_ixs) : target_at(snapshot_targets, winner_ixs[k]) = None
      THEN Err("InvalidWinner")
      ELSE
        LET winners == [k \in 1 .. Len(winner_ixs) |->
                           Unwrap(target_at(snapshot_targets, winner_ixs[k]))]
            maybe_assignments ==
                into_assignment(partial_solution, snapshot_voters, snapshot_targets)
        IN
        IF maybe_assignments = None
        THEN Err("SolutionInvalidIndex")
        ELSE
          LET assignments == Unwrap(maybe_assignments)
              \* the per-assignment check, in order; the first failure is returned
              check(i) ==
                  LET ix == voter_index(snapshot_voters, assignments[i].who)
                  IN  IF ix = None THEN "InvalidVoter"
                      ELSE IF assignments[i].target \notin Range(snapshot_targets)
                           THEN "InvalidVote"
                           ELSE ""
              failing == {i \in 1 .. Len(assignments) : check(i) /= ""}
          IN
          IF failing /= {}
          THEN Err(check(CHOOSE i \in failing : \A j \in failing : i <= j))
          ELSE
            LET staked == assignment_ratio_to_staked_normalized(assignments, snapshot_voters)
            IN  Ok(to_supports(winners, staked))

feasibility_check_page_inner(snap, partial_solution, page) ==
    IF targets(snap) = None \/ voters(snap, page) = None
    THEN Err("SnapshotUnavailable")
    ELSE
      LET snapshot_targets == Unwrap(targets(snap))
          snapshot_voters == Unwrap(voters(snap, page))
          winner_ixs == unique_targets(partial_solution)
      IN
      IF \E k \in 1 .. Len(winner_ixs) : target_at(snapshot_targets, winner_ixs[k]) = None
      THEN Err("InvalidWinner")
      ELSE
        LET winners == [k \in 1 .. Len(winner_ixs) |->
                           Unwrap(target_at(snapshot_targets, winner_ixs[k]))]
            maybe_assignments ==
                into_assignment(partial_solution, snapshot_voters, snapshot_targets)
        IN
        IF maybe_assignments = None
        THEN Err("SolutionInvalidIndex")
        ELSE
          LET assignments == Unwrap(maybe_assignments)
              \* the per-assignment check, in order; the first failure is returned
              check(i) ==
                  LET ix == voter_index(snapshot_voters, assignments[i].who)
                  IN  IF ix = None THEN "InvalidVoter"
                      ELSE IF assignments[i].target \notin snapshot_voters[Unwrap(ix) + 1][3]
                           THEN "InvalidVote"
                           ELSE ""
              failing == {i \in 1 .. Len(assignments) : check(i) /= ""}
          IN
          IF failing /= {}
          THEN Err(check(CHOOSE i \in failing : \A j \in failing : i <= j))
          ELSE
            LET staked == assignment_ratio_to_staked_normalized(assignments, snapshot_voters)
            IN  Ok(to_supports(winners, staked))

\* mutant: every page is checked against the voters of page 0
feasibility_check_page_first_page_voters(snap, partial_solution, page) ==
    feasibility_check_page_inner(snap, partial_solution, 0)

\* <Pallet as Verifier>::feasibility_check_page
feasibility_check_page(snap, partial_solution, page) ==
    feasibility_check_page_inner(snap, partial_solution, page)

(***************************************************************************)
(* Scores (sp_npos_elections): [minimal stake, sum stake, sum stake^2].    *)
(***************************************************************************)
RECURSIVE MinSeq(_)
MinSeq(s) == IF s = << >> THEN BalanceCap ELSE Min(Head(s), MinSeq(Tail(s)))

\* EvaluateSupport::evaluate over a sequence of support totals
evaluate(totals) ==
    << MinSeq(totals),
       SumSeq(totals),
       SumSeq([i \in 1 .. Len(totals) |-> saturating_mul(totals[i], totals[i])]) >>

\* Perbill::mul_ceil
mul_ceil(x) == (ThresholdPercent * x + 99) \div 100
\* ThresholdOrd::tcmp: "EQ" when the two are within the threshold of each other
tcmp(a, b, threshold) ==
    IF (IF a >= b THEN a - b ELSE b - a) <= threshold THEN "EQ"
    ELSE IF a > b THEN "GT" ELSE "LT"

\* is_score_better(this, that, epsilon); zero is TRUE for Perbill::zero()
is_score_better(this, that, zero) ==
    LET eps(x) == IF zero THEN 0 ELSE mul_ceil(x)
        c(i) == tcmp(this[i], that[i], eps(that[i]))
        ge(i) == this[i] >= that[i]
    IN  \/ c(1) = "GT"
        \/ ge(1) /\ c(1) = "EQ" /\ c(2) = "GT"
        \/ ge(1) /\ c(1) = "EQ" /\ ge(2) /\ c(2) = "EQ" /\ c(3) = "LT"

(***************************************************************************)
(* VerifyingSolution: the wrapper of the three tracker storage items.  An  *)
(* operation takes the tracker as a record v and returns the new one.      *)
(***************************************************************************)
V == [storage |-> VerifyingSolutionStorage,
      page    |-> VerifyingSolutionPage,
      score   |-> VerifyingSolutionScore]

exists(v) == v.score /= None
get_score(v) == v.score
get_page(v, index) == IF index \in DOMAIN v.storage THEN Some(v.storage[index]) ELSE None
\* mutant: a tracker that holds pages and no cursor is read as standing at the top page
current_page_of_loading(v) == IF v.page = None /\ v.storage /= EmptyMap THEN Some(msp) ELSE v.page
current_page(v) == v.page

\* mutant: the cursor and the score are removed, the pages are left behind
VerifyingSolution_kill_keeps_pages(v) == [storage |-> v.storage, page |-> None, score |-> None]

VerifyingSolution_kill(v) == [storage |-> EmptyMap, page |-> None, score |-> None]

\* mutant: the seal guard is dropped, a page is written over a sealed candidate
put_page_unguarded(v, page_index, page_solution) ==
    [ret |-> "Ok",
     v   |-> [v EXCEPT !.storage = MapInsert(@, page_index, page_solution)]]

\* mutant: a page already stored at the index is kept, the first write wins
put_page_first_write_wins(v, page_index, page_solution) ==
    IF exists(v)
    THEN [ret |-> "Err", v |-> v]
    ELSE [ret |-> "Ok",
          v   |-> IF page_index \in DOMAIN v.storage THEN v
                  ELSE [v EXCEPT !.storage = MapInsert(@, page_index, page_solution)]]

put_page(v, page_index, page_solution) ==
    IF exists(v)
    THEN [ret |-> "Err", v |-> v]
    ELSE [ret |-> "Ok",
          v   |-> [v EXCEPT !.storage = MapInsert(@, page_index, page_solution)]]

\* mutant: the subtraction wraps at 0 instead of being checked
proceed_page_wraps(v) ==
    IF v.page /= None
    THEN [ret |-> TRUE,
          v   |-> [v EXCEPT !.page = Some(IF Unwrap(@) = 0 THEN msp ELSE Unwrap(@) - 1)]]
    ELSE [ret |-> FALSE, v |-> v]

\* mutant: at 0 the cursor is taken away instead of being left in place
proceed_page_clears_at_zero(v) ==
    IF v.page /= None
    THEN IF Unwrap(v.page) - 1 >= 0
         THEN [ret |-> TRUE,  v |-> [v EXCEPT !.page = Some(Unwrap(@) - 1)]]
         ELSE [ret |-> FALSE, v |-> [v EXCEPT !.page = None]]
    ELSE [ret |-> FALSE, v |-> v]

proceed_page(v) ==
    IF v.page /= None
    THEN IF Unwrap(v.page) - 1 >= 0
         THEN [ret |-> TRUE,  v |-> [v EXCEPT !.page = Some(Unwrap(@) - 1)]]
         ELSE [ret |-> FALSE, v |-> v]
    ELSE [ret |-> FALSE, v |-> v]

(***************************************************************************)
(* QueuedSolution: the wrapper of the double-buffered store, as a record q.*)
(***************************************************************************)
Q == [X        |-> QueuedSolutionX,
      Y        |-> QueuedSolutionY,
      variant  |-> QueuedValidVariant,
      backings |-> QueuedSolutionBackings,
      score    |-> QueuedSolutionScore]

\* ValidSolution::other
other(variant) == IF variant = "X" THEN "Y" ELSE "X"
valid(q) == q.variant
invalid(q) == other(q.variant)
Slot(q, variant) == IF variant = "X" THEN q.X ELSE q.Y
WithSlot(q, variant, pages) ==
    IF variant = "X" THEN [q EXCEPT !.X = pages] ELSE [q EXCEPT !.Y = pages]

queued_solution(q) == q.score
\* mutant: the reader falls back on the scratch slot when the valid slot has no such page
get_queued_solution_page_falls_back(q, page) ==
    IF page \in DOMAIN Slot(q, valid(q)) THEN Some(Slot(q, valid(q))[page])
    ELSE IF page \in DOMAIN Slot(q, invalid(q)) THEN Some(Slot(q, invalid(q))[page])
    ELSE None

get_queued_solution_page(q, page) ==
    IF page \in DOMAIN Slot(q, valid(q)) THEN Some(Slot(q, valid(q))[page]) ELSE None
get_invalid_page(q, page) ==
    IF page \in DOMAIN Slot(q, invalid(q)) THEN Some(Slot(q, invalid(q))[page]) ELSE None

\* the debug_assert_eq! at the head of final_score
final_score_precondition(q) == Cardinality(DOMAIN q.backings) = Pages

RECURSIVE Flatten(_, _)
Flatten(m, keys) ==
    IF keys = << >> THEN << >> ELSE m[Head(keys)] \o Flatten(m, Tail(keys))

RECURSIVE TotalFor(_, _)
TotalFor(entries, w) ==
    IF entries = << >> THEN 0
    ELSE saturating_add(IF Head(entries)[1] = w THEN Head(entries)[2] ELSE 0,
                        TotalFor(Tail(entries), w))

\* mutant: only the backings of the highest page stored are counted
final_score_one_page(q) ==
    LET top == CHOOSE p \in DOMAIN q.backings : \A o \in DOMAIN q.backings : o <= p
        entries == IF q.backings = EmptyMap THEN << >> ELSE q.backings[top]
        total_supports == SortedSeq({entries[i][1] : i \in 1 .. Len(entries)})
        mock_supports == [k \in 1 .. Len(total_supports) |-> TotalFor(entries, total_supports[k])]
    IN  [score |-> evaluate(mock_supports), count |-> Len(mock_supports)]

\* final_score: per-target totals over all backing pages, then (score, winner count)
final_score(q) ==
    LET entries == Flatten(q.backings, SortedSeq(DOMAIN q.backings))
        total_supports == SortedSeq({entries[i][1] : i \in 1 .. Len(entries)})
        mock_supports == [k \in 1 .. Len(total_supports) |-> TotalFor(entries, total_supports[k])]
    IN  [score |-> evaluate(mock_supports), count |-> Len(mock_supports)]

\* mutant: the wrong slot is wiped, the valid one
clear_invalid_wrong_slot(q) ==
    [WithSlot(q, valid(q), EmptyMap) EXCEPT !.backings = EmptyMap]

\* mutant: the scratch slot is wiped, the backings are left
clear_invalid_keeps_backings(q) ==
    WithSlot(q, invalid(q), EmptyMap)

\* clear_invalid: wipe the scratch slot and the backings; the variant is not flipped
clear_invalid(q) ==
    [WithSlot(q, invalid(q), EmptyMap) EXCEPT !.backings = EmptyMap]

\* clear_valid: wipe the valid slot and the queued score
clear_valid(q) ==
    [WithSlot(q, valid(q), EmptyMap) EXCEPT !.score = None]

\* mutant: the pointer is not flipped
finalize_correct_no_flip(q, score) ==
    LET q2 == [q  EXCEPT !.score = Some(score)]
        q3 == [q2 EXCEPT !.backings = EmptyMap]
    IN  clear_invalid(q3)

\* mutant: the pointer is flipped by the last write instead of the first
finalize_correct_writes_flip_last(q, score) ==
    LET q1 == [q  EXCEPT !.score = Some(score)]
        q2 == [q1 EXCEPT !.backings = EmptyMap]
        q3 == clear_invalid(q2)
        q4 == [q3 EXCEPT !.variant = other(@)]
    IN  <<q1, q2, q3, q4>>

\* the store after each write of finalize_correct, in the order of the source
finalize_correct_writes(q, score) ==
    LET q1 == [q  EXCEPT !.variant = other(@)]
        q2 == [q1 EXCEPT !.score = Some(score)]
        q3 == [q2 EXCEPT !.backings = EmptyMap]
        q4 == clear_invalid(q3)
    IN  <<q1, q2, q3, q4>>

\* mutant: what was the valid slot is not cleared
finalize_correct_keeps_old_valid(q, score) ==
    LET writes == finalize_correct_writes(q, score)
    IN  writes[Len(writes) - 1]

\* finalize_correct: flip the pointer, store the score, clear backings and old valid slot
finalize_correct(q, score) ==
    LET writes == finalize_correct_writes(q, score)
    IN  writes[Len(writes)]

\* mutant: the verified page is written over the valid slot instead of the scratch slot
set_invalid_page_into_valid(q, page, supports) ==
    LET backings == [i \in 1 .. Len(supports) |-> <<supports[i][1], supports[i][2].total>>]
        q1 == [q EXCEPT !.backings = MapInsert(@, page, backings)]
    IN  WithSlot(q1, valid(q1), MapInsert(Slot(q1, valid(q1)), page, supports))

\* mutant: the supports are written, their backings are recorded without the totals
set_invalid_page_backings_without_totals(q, page, supports) ==
    LET backings == [i \in 1 .. Len(supports) |-> <<supports[i][1], 0>>]
        q1 == [q EXCEPT !.backings = MapInsert(@, page, backings)]
    IN  WithSlot(q1, invalid(q1), MapInsert(Slot(q1, invalid(q1)), page, supports))

\* set_invalid_page: record the page's backings, write its supports to the scratch slot
set_invalid_page(q, page, supports) ==
    LET backings == [i \in 1 .. Len(supports) |-> <<supports[i][1], supports[i][2].total>>]
        q1 == [q EXCEPT !.backings = MapInsert(@, page, backings)]
    IN  WithSlot(q1, invalid(q1), MapInsert(Slot(q1, invalid(q1)), page, supports))

\* Pagify::pagify: element i of the vector goes to page i + (pages - length)
pagify(paged, pages) ==
    LET padding == IF pages > Len(paged) THEN pages - Len(paged) ELSE 0
    IN  [i \in 1 .. Len(paged) |-> <<(i - 1) + padding, paged[i]>>]

RECURSIVE InsertAll(_, _)
InsertAll(m, kvs) ==
    IF kvs = << >> THEN m
    ELSE InsertAll(MapInsert(m, Head(kvs)[1], Head(kvs)[2]), Tail(kvs))

\* mutant: the pages are written to the slot the pointer does not name
force_set_valid_into_invalid(q, paged_supports, score) ==
    LET q1 == WithSlot(q, invalid(q),
                       InsertAll(Slot(q, invalid(q)), pagify(paged_supports, Pages)))
    IN  [q1 EXCEPT !.score = Some(score)]

\* force_set_valid: write every given page to the valid slot, and the score, blindly
force_set_valid(q, paged_supports, score) ==
    LET q1 == WithSlot(q, valid(q), InsertAll(Slot(q, valid(q)), pagify(paged_supports, Pages)))
    IN  [q1 EXCEPT !.score = Some(score)]

\* force_set_single_page_valid: clear the valid solution, write one page and the score
\* mutant: the valid solution is not cleared before the single page is written
force_set_single_page_valid_no_clear(q, page, supports, score) ==
    LET q2 == WithSlot(q, valid(q), MapInsert(Slot(q, valid(q)), page, supports))
    IN  [q2 EXCEPT !.score = Some(score)]

\* mutant: the scratch slot and the backings are cleared in place of the valid solution
force_set_single_page_valid_clears_scratch(q, page, supports, score) ==
    LET q1 == clear_invalid(q)
        q2 == WithSlot(q1, valid(q1), MapInsert(Slot(q1, valid(q1)), page, supports))
    IN  [q2 EXCEPT !.score = Some(score)]

force_set_single_page_valid(q, page, supports, score) ==
    LET q1 == clear_valid(q)
        q2 == WithSlot(q1, valid(q1), MapInsert(Slot(q1, valid(q1)), page, supports))
    IN  [q2 EXCEPT !.score = Some(score)]

\* QueuedSolution::kill: clear all storage items (the variant returns to its default, Y)
QueuedSolution_kill(q) ==
    [X |-> EmptyMap, Y |-> EmptyMap, variant |-> "Y", backings |-> EmptyMap, score |-> None]

(***************************************************************************)
(* Pallet: score gate, sealing, finalization and the per-block hook.       *)
(***************************************************************************)
\* ensure_score_quality: TRUE for Ok(()), FALSE for Err(ScoreTooLow)
\* mutant: the floor comparison lets a score equal to the floor through
ensure_score_quality_floor_inclusive(q, min_score, score) ==
    LET is_improvement ==
            IF queued_solution(q) = None THEN TRUE
            ELSE is_score_better(score, Unwrap(queued_solution(q)), FALSE)
        is_greater_than_min_trusted ==
            IF min_score = None THEN TRUE
            ELSE score = Unwrap(min_score) \/ is_score_better(score, Unwrap(min_score), TRUE)
    IN  is_improvement /\ is_greater_than_min_trusted

ensure_score_quality(q, min_score, score) ==
    LET is_improvement ==
            IF queued_solution(q) = None THEN TRUE
            ELSE is_score_better(score, Unwrap(queued_solution(q)), FALSE)
        is_greater_than_min_trusted ==
            IF min_score = None THEN TRUE
            ELSE is_score_better(score, Unwrap(min_score), TRUE)
    IN  is_improvement /\ is_greater_than_min_trusted

\* mutant: a rejected score returns the error without wiping the submitted pages
seal_unverified_solution_no_wipe(v, q, min_score, claimed_score) ==
    IF exists(v)
    THEN [ret |-> "Err", v |-> v]
    ELSE IF ~ensure_score_quality(q, min_score, claimed_score)
         THEN [ret |-> "Err", v |-> v]
         ELSE [ret |-> "Ok",
               v   |-> [v EXCEPT !.score = Some(claimed_score), !.page = Some(msp)]]

\* mutant: the score gate, which wipes the tracker, runs before the seal guard
seal_unverified_solution_gate_first(v, q, min_score, claimed_score) ==
    IF ~ensure_score_quality(q, min_score, claimed_score)
    THEN [ret |-> "Err", v |-> VerifyingSolution_kill(v)]
    ELSE IF exists(v)
         THEN [ret |-> "Err", v |-> v]
         ELSE [ret |-> "Ok",
               v   |-> [v EXCEPT !.score = Some(claimed_score), !.page = Some(msp)]]

\* mutant: the cursor starts at the highest page submitted instead of msp
seal_unverified_solution_highest_present(v, q, min_score, claimed_score) ==
    IF exists(v)
    THEN [ret |-> "Err", v |-> v]
    ELSE IF ~ensure_score_quality(q, min_score, claimed_score)
         THEN [ret |-> "Err", v |-> VerifyingSolution_kill(v)]
         ELSE [ret |-> "Ok",
               v   |-> [v EXCEPT !.score = Some(claimed_score),
                                 !.page = IF DOMAIN v.storage = {} THEN Some(msp)
                                          ELSE Some(CHOOSE p \in DOMAIN v.storage :
                                                      \A r \in DOMAIN v.storage : r <= p)]]

\* mutant: the seal does not run the score gate
seal_unverified_solution_no_gate(v, q, min_score, claimed_score) ==
    IF exists(v)
    THEN [ret |-> "Err", v |-> v]
    ELSE [ret |-> "Ok",
          v   |-> [v EXCEPT !.score = Some(claimed_score), !.page = Some(msp)]]

seal_unverified_solution(v, q, min_score, claimed_score) ==
    IF exists(v)
    THEN [ret |-> "Err", v |-> v]
    ELSE IF ~ensure_score_quality(q, min_score, claimed_score)
         THEN [ret |-> "Err", v |-> VerifyingSolution_kill(v)]
         ELSE [ret |-> "Ok",
               v   |-> [v EXCEPT !.score = Some(claimed_score), !.page = Some(msp)]]

\* mutant: the winner count is not compared with the desired targets
finalize_verification_score_only(v, q, snap) ==
    IF get_score(v) = None \/ desired_targets(snap) = None
    THEN [branch |-> "trap", v |-> v, q |-> q]
    ELSE
      LET fs == final_score(q)
          claimed_score == Unwrap(get_score(v))
      IN  IF fs.score = claimed_score
          THEN [branch |-> "accept", v |-> VerifyingSolution_kill(v),
                q |-> finalize_correct(q, fs.score)]
          ELSE [branch |-> "reject", v |-> VerifyingSolution_kill(v), q |-> clear_invalid(q)]

\* finalize_verification; branch names the path taken ("trap": an unwrap panicked)
finalize_verification(v, q, snap) ==
    IF get_score(v) = None \/ desired_targets(snap) = None
    THEN [branch |-> "trap", v |-> v, q |-> q]
    ELSE
      LET fs == final_score(q)
          claimed_score == Unwrap(get_score(v))
      IN  IF fs.score = claimed_score /\ fs.count = Unwrap(desired_targets(snap))
          THEN [branch |-> "accept", v |-> VerifyingSolution_kill(v),
                q |-> finalize_correct(q, fs.score)]
          ELSE [branch |-> "reject", v |-> VerifyingSolution_kill(v), q |-> clear_invalid(q)]

\* mutant: a missing page is taken for a page that cannot pass
page_or_default_strict(v, page) ==
    IF get_page(v, page) = None THEN SolBadWinner ELSE Unwrap(get_page(v, page))

\* the page the hook checks at the cursor: a missing page defaults to the empty solution
page_or_default(v, page) ==
    IF get_page(v, page) = None THEN DefaultSolution ELSE Unwrap(get_page(v, page))

\* mutant: a failed page kills the tracker but leaves the scratch slot and backings
on_initialize_keeps_scratch(v, q, snap, debug) ==
    IF current_page(v) = None
    THEN [branch |-> "idle", v |-> v, q |-> q]
    ELSE
      LET page == Unwrap(current_page(v))
          page_solution == page_or_default(v, page)
          maybe_support == feasibility_check_page(snap, page_solution, page)
      IN
      IF maybe_support.ok
      THEN LET q1 == set_invalid_page(q, page, maybe_support.val)
               pp == proceed_page(v)
           IN  IF ~pp.ret
               THEN IF debug /\ ~final_score_precondition(q1)
                    THEN [branch |-> "trap", v |-> pp.v, q |-> q1]
                    ELSE finalize_verification(pp.v, q1, snap)
               ELSE [branch |-> "more", v |-> pp.v, q |-> q1]
      ELSE [branch |-> "fail", v |-> VerifyingSolution_kill(v), q |-> q]

\* mutant: an absent cursor is read as page 0 instead of ending the hook
on_initialize_default_cursor(v, q, snap, debug) ==
    IF FALSE
    THEN [branch |-> "idle", v |-> v, q |-> q]
    ELSE
      LET page == IF current_page(v) = None THEN 0 ELSE Unwrap(current_page(v))
          page_solution == page_or_default(v, page)
          maybe_support == feasibility_check_page(snap, page_solution, page)
      IN
      IF maybe_support.ok
      THEN LET q1 == set_invalid_page(q, page, maybe_support.val)
               pp == proceed_page(v)
           IN  IF ~pp.ret
               THEN IF debug /\ ~final_score_precondition(q1)
                    THEN [branch |-> "trap", v |-> pp.v, q |-> q1]
                    ELSE finalize_verification(pp.v, q1, snap)
               ELSE [branch |-> "more", v |-> pp.v, q |-> q1]
      ELSE [branch |-> "fail", v |-> VerifyingSolution_kill(v), q |-> clear_invalid(q)]

\* Hooks::on_initialize.  debug tells whether debug assertions are compiled in.
\* mutant: the hook takes the pages in ascending order, page msp - cursor at cursor
on_initialize_ascending(v, q, snap, debug) ==
    IF current_page(v) = None
    THEN [branch |-> "idle", v |-> v, q |-> q]
    ELSE
      LET page == msp - Unwrap(current_page(v))
          page_solution == page_or_default(v, page)
          maybe_support == feasibility_check_page(snap, page_solution, page)
      IN
      IF maybe_support.ok
      THEN LET q1 == set_invalid_page(q, page, maybe_support.val)
               pp == proceed_page(v)
           IN  IF ~pp.ret
               THEN IF debug /\ ~final_score_precondition(q1)
                    THEN [branch |-> "trap", v |-> pp.v, q |-> q1]
                    ELSE finalize_verification(pp.v, q1, snap)
               ELSE [branch |-> "more", v |-> pp.v, q |-> q1]
      ELSE [branch |-> "fail", v |-> VerifyingSolution_kill(v), q |-> clear_invalid(q)]

\* mutant: a page that passed is taken out of the tracker as the cursor moves on
on_initialize_consumes_pages(v, q, snap, debug) ==
    IF current_page(v) = None
    THEN [branch |-> "idle", v |-> v, q |-> q]
    ELSE
      LET page == Unwrap(current_page(v))
          page_solution == page_or_default(v, page)
          maybe_support == feasibility_check_page(snap, page_solution, page)
      IN
      IF maybe_support.ok
      THEN LET q1 == set_invalid_page(q, page, maybe_support.val)
               pp == proceed_page(v)
           IN  IF ~pp.ret
               THEN IF debug /\ ~final_score_precondition(q1)
                    THEN [branch |-> "trap", v |-> pp.v, q |-> q1]
                    ELSE finalize_verification(pp.v, q1, snap)
               ELSE [branch |-> "more",
                     v |-> [pp.v EXCEPT !.storage = [x \in (DOMAIN @) \ {page} |-> @[x]]],
                     q |-> q1]
      ELSE [branch |-> "fail", v |-> VerifyingSolution_kill(v), q |-> clear_invalid(q)]

\* mutant: a failed page removes the pages and the score and leaves the cursor
on_initialize_fail_keeps_cursor(v, q, snap, debug) ==
    IF current_page(v) = None
    THEN [branch |-> "idle", v |-> v, q |-> q]
    ELSE
      LET page == Unwrap(current_page(v))
          page_solution == page_or_default(v, page)
          maybe_support == feasibility_check_page(snap, page_solution, page)
      IN
      IF maybe_support.ok
      THEN LET q1 == set_invalid_page(q, page, maybe_support.val)
               pp == proceed_page(v)
           IN  IF ~pp.ret
               THEN IF debug /\ ~final_score_precondition(q1)
                    THEN [branch |-> "trap", v |-> pp.v, q |-> q1]
                    ELSE finalize_verification(pp.v, q1, snap)
               ELSE [branch |-> "more", v |-> pp.v, q |-> q1]
      ELSE [branch |-> "fail", v |-> [v EXCEPT !.storage = EmptyMap, !.score = None],
            q |-> clear_invalid(q)]

on_initialize(v, q, snap, debug) ==
    IF current_page(v) = None
    THEN [branch |-> "idle", v |-> v, q |-> q]
    ELSE
      LET page == Unwrap(current_page(v))
          page_solution == page_or_default(v, page)
          maybe_support == feasibility_check_page(snap, page_solution, page)
      IN
      IF maybe_support.ok
      THEN LET q1 == set_invalid_page(q, page, maybe_support.val)
               pp == proceed_page(v)
           IN  IF ~pp.ret
               THEN IF debug /\ ~final_score_precondition(q1)
                    THEN [branch |-> "trap", v |-> pp.v, q |-> q1]
                    ELSE finalize_verification(pp.v, q1, snap)
               ELSE [branch |-> "more", v |-> pp.v, q |-> q1]
      ELSE [branch |-> "fail", v |-> VerifyingSolution_kill(v), q |-> clear_invalid(q)]

\* Call set_minimum_untrusted_score
set_minimum_untrusted_score(min_score, origin_ok, maybe_next_score) ==
    IF ~origin_ok
    THEN [ret |-> "BadOrigin", min |-> min_score]
    ELSE [ret |-> "Ok", min |-> maybe_next_score]

\* Call set_emergency_solution
\* mutant: the page count is not checked
set_emergency_solution_any_page_count(q, origin_ok, is_emergency, paged_supports, claimed_score) ==
    IF ~origin_ok
    THEN [ret |-> "BadOrigin", q |-> q]
    ELSE IF ~is_emergency
         THEN [ret |-> "CallNotAllowed", q |-> q]
         ELSE [ret |-> "Ok", q |-> force_set_valid(q, paged_supports, claimed_score)]

set_emergency_solution(q, origin_ok, is_emergency, paged_supports, claimed_score) ==
    IF ~origin_ok
    THEN [ret |-> "BadOrigin", q |-> q]
    ELSE IF ~is_emergency
         THEN [ret |-> "CallNotAllowed", q |-> q]
         ELSE IF Len(paged_supports) /= Pages
              THEN [ret |-> "WrongPageCount", q |-> q]
              ELSE [ret |-> "Ok", q |-> force_set_valid(q, paged_supports, claimed_score)]

(***************************************************************************)
(* Inputs the entry points are exercised with.                             *)
(***************************************************************************)
SolutionPool == {DefaultSolution, SolA, SolB, SolBadWinner}
ScorePool == {<<4, 10, 52>>, <<5, 10, 52>>, <<4, 11, 52>>, <<4, 10, 51>>, <<1, 4, 10>>,
              <<3, 3, 9>>}
FloorPool == {None, Some(<<2, 5, 20>>)}
EmergencyScore == <<6, 6, 36>>
\* a trusted solution of n pages: one target backed with the whole stake, on page 0
EmergencySupports(n) ==
    [i \in 1 .. n |->
        IF i = 1 THEN << <<10, [total |-> 6, voters |-> << <<1, 6>> >>]>> >> ELSE << >>]
EmergencyPool == {EmergencySupports(Pages), EmergencySupports(Pages - 1)}

(***************************************************************************)
(* The queued solution as its readers see it.                              *)
(***************************************************************************)
QueuedView(q) ==
    [score |-> queued_solution(q),
     pages |-> [p \in PageRange |-> get_queued_solution_page(q, p)]]

(***************************************************************************)
(* State machine.                                                          *)
(***************************************************************************)
SetV(v) ==
    /\ VerifyingSolutionStorage' = v.storage
    /\ VerifyingSolutionPage' = v.page
    /\ VerifyingSolutionScore' = v.score

SetQ(q) ==
    /\ QueuedSolutionX' = q.X
    /\ QueuedSolutionY' = q.Y
    /\ QueuedValidVariant' = q.variant
    /\ QueuedSolutionBackings' = q.backings
    /\ QueuedSolutionScore' = q.score

Init ==
    /\ VerifyingSolutionStorage = EmptyMap
    /\ VerifyingSolutionPage = None
    /\ VerifyingSolutionScore = None
    /\ QueuedSolutionX = EmptyMap
    /\ QueuedSolutionY = EmptyMap
    /\ QueuedValidVariant = "Y"
    /\ QueuedSolutionBackings = EmptyMap
    /\ QueuedSolutionScore = None
    /\ MinimumUntrustedScore = None
    /\ snapshot \in {FullSnapshot, NoSnapshot}
    /\ trapped = FALSE
    /\ ticks = 0
    /\ sealedView = None
    /\ sealedFloor = None
    /\ lastRound = "none"

\* Verifier::set_unverified_solution_page -> VerifyingSolution::put_page
PutPage(page_index, page_solution) ==
    /\ ~trapped
    /\ \E r \in {put_page(V, page_index, page_solution)} : SetV(r.v)
    /\ UNCHANGED <<queuedVars, MinimumUntrustedScore, snapshot, trapped, ticks, sealedView, sealedFloor,
                   lastRound>>

\* Verifier::seal_unverified_solution -> VerifyingSolution::seal_unverified_solution
Seal(claimed_score) ==
    /\ ~trapped
    /\ \E r \in {seal_unverified_solution(V, Q, MinimumUntrustedScore, claimed_score)} :
           /\ SetV(r.v)
           /\ ticks' = IF r.ret = "Ok" THEN 0 ELSE ticks
           /\ sealedView' = IF r.ret = "Ok" THEN Some(QueuedView(Q)) ELSE sealedView
           /\ sealedFloor' = IF r.ret = "Ok" THEN MinimumUntrustedScore ELSE sealedFloor
           /\ lastRound' = IF r.ret = "Ok" THEN "none"
                           ELSE IF exists(V) THEN lastRound ELSE "seal_rejected"
    /\ UNCHANGED <<queuedVars, MinimumUntrustedScore, snapshot, trapped>>

\* Hooks::on_initialize, once per block
Tick ==
    /\ ~trapped
    /\ \E debug \in BOOLEAN : \E r \in {on_initialize(V, Q, snapshot, debug)} :
             IF r.branch = "trap"
             THEN /\ trapped' = TRUE
                  /\ UNCHANGED <<verifyingVars, queuedVars, ticks, sealedView, sealedFloor, lastRound>>
             ELSE /\ SetV(r.v)
                  /\ SetQ(r.q)
                  /\ ticks' = IF r.branch = "idle" \/ ticks > Pages THEN ticks ELSE ticks + 1
                  /\ sealedView' = IF exists(r.v) THEN sealedView ELSE None
                  /\ sealedFloor' = IF exists(r.v) THEN sealedFloor ELSE None
                  /\ lastRound' = IF r.branch \in {"accept", "reject", "fail"}
                                  THEN r.branch ELSE lastRound
                  /\ UNCHANGED trapped
    /\ UNCHANGED <<MinimumUntrustedScore, snapshot>>

SetMinimumUntrustedScore(origin_ok, maybe_next_score) ==
    /\ ~trapped
    /\ MinimumUntrustedScore' =
           set_minimum_untrusted_score(MinimumUntrustedScore, origin_ok, maybe_next_score).min
    /\ UNCHANGED <<verifyingVars, queuedVars, snapshot, trapped, ticks, sealedView, sealedFloor, lastRound>>

SetEmergencySolution(origin_ok, is_emergency, paged_supports, claimed_score) ==
    /\ ~trapped
    /\ \E r \in {set_emergency_solution(Q, origin_ok, is_emergency, paged_supports,
                                      claimed_score)} : SetQ(r.q)
    /\ UNCHANGED <<verifyingVars, MinimumUntrustedScore, snapshot, trapped, ticks, sealedView, sealedFloor,
                   lastRound>>

\* Verifier::force_set_single_page_valid -> QueuedSolution::force_set_single_page_valid
ForceSetSinglePageValid(page, supports, score) ==
    /\ ~trapped
    /\ \E q \in {force_set_single_page_valid(Q, page, supports, score)} : SetQ(q)
    /\ UNCHANGED <<verifyingVars, MinimumUntrustedScore, snapshot, trapped, ticks, sealedView, sealedFloor,
                   lastRound>>

\* Verifier::kill -> QueuedSolution::kill
Kill ==
    /\ ~trapped
    /\ \E q \in {QueuedSolution_kill(Q)} : SetQ(q)
    /\ UNCHANGED <<verifyingVars, MinimumUntrustedScore, snapshot, trapped, ticks, sealedView, sealedFloor,
                   lastRound>>

Submit == \E page_index \in PageRange, page_solution \in SolutionPool :
              PutPage(page_index, page_solution)
SealAny == \E claimed_score \in ScorePool : Seal(claimed_score)
SetFloor == \E origin_ok \in BOOLEAN, maybe_next_score \in FloorPool :
                SetMinimumUntrustedScore(origin_ok, maybe_next_score)
Emergency == \E origin_ok \in BOOLEAN, is_emergency \in BOOLEAN, paged \in EmergencyPool :
                 SetEmergencySolution(origin_ok, is_emergency, paged, EmergencyScore)
ForceSingle == \E page \in {0, msp} :
                   ForceSetSinglePageValid(page, EmergencySupports(1)[1], EmergencyScore)

\* the producer and the scheduler only
NextCore == Submit \/ SealAny \/ Tick
SpecCore == Init /\ [][NextCore]_vars

\* with the privileged entry points
Next == Submit \/ SealAny \/ Tick \/ SetFloor \/ Emergency \/ ForceSingle \/ Kill
Spec == Init /\ [][Next]_vars

\* the privileged writers handed any score, not only the one their pages add up to
ForceScorePool == {EmergencyScore, <<6, 6, 35>>}
EmergencyAnyScore ==
    \E origin_ok \in BOOLEAN, is_emergency \in BOOLEAN, paged \in EmergencyPool,
       score \in ForceScorePool :
        SetEmergencySolution(origin_ok, is_emergency, paged, score)
ForceSingleAnyScore ==
    \E page \in {0, msp}, score \in ForceScorePool :
        ForceSetSinglePageValid(page, EmergencySupports(1)[1], score)

\* producer, scheduler and the two forced writes of the valid solution
NextForce == Submit \/ SealAny \/ Tick \/ EmergencyAnyScore \/ ForceSingleAnyScore
SpecForce == Init /\ [][NextForce]_vars

\* the page check on its own: any snapshot with a part missing, any page solution
SolBadBoth == << <<2, 2>> >>
SolBadWinnerAndVote == << <<1, 0>>, <<0, 2>> >>
SolBadVoterAndVote == << <<1, 0>>, <<2, 0>> >>
FeasSolutionPool ==
    SolutionPool \cup {SolBadVoter, SolBadVote, SolBadBoth, SolBadWinnerAndVote,
                       SolBadVoterAndVote}
SnapshotPool ==
    {FullSnapshot, NoSnapshot,
     [FullSnapshot EXCEPT !.targets = None],
     [FullSnapshot EXCEPT !.desired = None],
     [FullSnapshot EXCEPT !.voters = [p \in PageRange \ {0} |-> SnapshotVoters[p]]],
     [FullSnapshot EXCEPT !.voters = [p \in PageRange \ {msp} |-> SnapshotVoters[p]]]}
InitFeas ==
    /\ VerifyingSolutionStorage = EmptyMap
    /\ VerifyingSolutionPage = None
    /\ VerifyingSolutionScore = None
    /\ QueuedSolutionX = EmptyMap
    /\ QueuedSolutionY = EmptyMap
    /\ QueuedValidVariant = "Y"
    /\ QueuedSolutionBackings = EmptyMap
    /\ QueuedSolutionScore = None
    /\ MinimumUntrustedScore = None
    /\ snapshot \in SnapshotPool
    /\ trapped = FALSE
    /\ ticks = 0
    /\ sealedView = None
    /\ sealedFloor = None
    /\ lastRound = "none"
SubmitFeas == \E page_index \in PageRange, page_solution \in FeasSolutionPool :
                  PutPage(page_index, page_solution)
NextFeas == SubmitFeas \/ SealAny \/ Tick
SpecFeas == InitFeas /\ [][NextFeas]_vars

TypeOK ==
    /\ DOMAIN VerifyingSolutionStorage \subseteq PageRange
    /\ \A p \in DOMAIN VerifyingSolutionStorage : VerifyingSolutionStorage[p] \in SolutionPool
    /\ VerifyingSolutionPage \in {None} \cup {Some(p) : p \in PageRange}
    /\ VerifyingSolutionScore \in {None} \cup {Some(c) : c \in ScorePool}
    /\ DOMAIN QueuedSolutionX \subseteq PageRange
    /\ DOMAIN QueuedSolutionY \subseteq PageRange
    /\ QueuedValidVariant \in {"X", "Y"}
    /\ DOMAIN QueuedSolutionBackings \subseteq PageRange
    /\ Len(QueuedSolutionScore) \in {0, 1}
    /\ MinimumUntrustedScore \in FloorPool
    /\ snapshot \in {FullSnapshot, NoSnapshot}
    /\ trapped \in BOOLEAN
    /\ ticks \in 0 .. Pages + 1
    /\ Len(sealedView) \in {0, 1}
    /\ Len(sealedFloor) \in {0, 1}
    /\ lastRound \in {"none", "seal_rejected", "accept", "reject", "fail"}

(***************************************************************************)
(* The candidate in the tracker, re-derived page by page from the tracker  *)
(* and the snapshot alone (not from the store).                            *)
(***************************************************************************)
CandidatePage(v, snap, p) == feasibility_check_page(snap, page_or_default(v, p), p)
CandidateFeasible(v, snap) == \A p \in PageRange : CandidatePage(v, snap, p).ok
CandidateView(v, snap) ==
    [score |-> v.score,
     pages |-> [p \in PageRange |-> Some(CandidatePage(v, snap, p).val)]]
\* the stake backing target t in the candidate, over all pages
CandidateBacking(v, snap, t) ==
    LET onPage(p) ==
            LET sup == CandidatePage(v, snap, p).val
                hit == {k \in 1 .. Len(sup) : sup[k][1] = t}
            IN  IF hit = {} THEN 0 ELSE sup[CHOOSE k \in hit : TRUE][2].total
    IN  SumSeq([i \in 1 .. Pages |-> onPage(i - 1)])
CandidateWinners(v, snap) ==
    {t \in Range(SnapshotTargets) :
        \E p \in PageRange : \E k \in 1 .. Len(CandidatePage(v, snap, p).val) :
            CandidatePage(v, snap, p).val[k][1] = t}
CandidateScore(v, snap) ==
    LET ws == SortedSeq(CandidateWinners(v, snap))
    IN  evaluate([k \in 1 .. Len(ws) |-> CandidateBacking(v, snap, ws[k])])
\* all pages pass, and the claimed score and the winner count are the recomputed ones
CandidateCorrect(v, snap) ==
    /\ CandidateFeasible(v, snap)
    /\ v.score = Some(CandidateScore(v, snap))
    /\ desired_targets(snap) = Some(Cardinality(CandidateWinners(v, snap)))

TrackerIdle(v) == v.storage = EmptyMap /\ v.page = None /\ v.score = None
ScratchEmpty(q) == Slot(q, invalid(q)) = EmptyMap /\ q.backings = EmptyMap

(***************************************************************************)
(* C1. Atomic promotion: over any step of submit_page, seal or tick, what  *)
(* the readers see (queued score and every queued page) either stays what  *)
(* it was, or becomes, in one step, the claimed score and the supports of  *)
(* every page of a candidate all of whose pages pass the check; never a    *)
(* scratch page of an unfinalized candidate, never a mix.                  *)
(***************************************************************************)
C1_AtomicPromotion ==
    [][ \/ QueuedView(Q)' = QueuedView(Q)
        \/ /\ VerifyingSolutionPage = Some(0)
           /\ CandidateFeasible(V, snapshot)
           /\ QueuedView(Q)' = CandidateView(V, snapshot) ]_vars

\* a second candidate has replaced a previously promoted one
C1_Witness ==
    /\ lastRound = "accept"
    /\ QueuedValidVariant = "Y"
    /\ QueuedSolutionScore = Some(<<4, 10, 52>>)

(***************************************************************************)
(* C2. Exclusivity: while a sealed candidate exists, every put_page and    *)
(* every seal returns an error, and no such call replaces the candidate:   *)
(* its claimed score and pages stay, so there is at most one at a time.    *)
(***************************************************************************)
C2_Exclusivity ==
    [][ exists(V) =>
          /\ \A p \in PageRange, sol \in SolutionPool : put_page(V, p, sol).ret = "Err"
          /\ \A c \in ScorePool :
                 seal_unverified_solution(V, Q, MinimumUntrustedScore, c).ret = "Err"
          /\ (Submit \/ SealAny) =>
                 /\ VerifyingSolutionScore' = VerifyingSolutionScore
                 /\ VerifyingSolutionStorage' = VerifyingSolutionStorage ]_vars

\* a sealed candidate in the middle of its verification
C2_Witness ==
    /\ exists(V)
    /\ VerifyingSolutionPage = Some(1)
    /\ ticks = 1

(***************************************************************************)
(* C3. Exact re-derivation: when the page at the cursor of a sealed        *)
(* candidate fails its check, the tick leaves nothing of the candidate     *)
(* (tracker pages, cursor and score gone; scratch slot and backings empty, *)
(* pages that had passed included) and the queued solution, score and      *)
(* pages, is what it was when the candidate was sealed.                    *)
(***************************************************************************)
PageFails(v, snap) ==
    /\ current_page(v) /= None
    /\ ~CandidatePage(v, snap, Unwrap(current_page(v))).ok

C3_ExactRederivation ==
    [][ (exists(V) /\ PageFails(V, snapshot)) =>
          /\ TrackerIdle(V)'
          /\ ScratchEmpty(Q)'
          /\ QueuedValidVariant' = QueuedValidVariant
          /\ QueuedView(Q)' = QueuedView(Q)
          /\ Some(QueuedView(Q)') = sealedView
          /\ lastRound' = "fail" ]_vars

\* a candidate failed on its last page, after two pages had passed, under a queued solution
C3_Witness ==
    /\ lastRound = "fail"
    /\ ticks = Pages
    /\ QueuedSolutionScore /= None

(***************************************************************************)
(* C4. Score recomputation equality: the tick that verifies the last page  *)
(* promotes the candidate if and only if the score recomputed from its     *)
(* pages equals the claimed score on all three components and the number   *)
(* of winners equals the desired-target count; a claimed score one unit    *)
(* off on a component is not promoted.                                     *)
(***************************************************************************)
ScoreMatches(v, snap) == v.score = Some(CandidateScore(v, snap))
CountMatches(v, snap) == desired_targets(snap) = Some(Cardinality(CandidateWinners(v, snap)))
Promoted ==
    /\ QueuedValidVariant' /= QueuedValidVariant
    /\ QueuedSolutionScore' = VerifyingSolutionScore
    /\ lastRound' = "accept"

C4_ScoreRecomputation ==
    [][ (VerifyingSolutionPage = Some(0) /\ CandidateFeasible(V, snapshot)) =>
          (Promoted <=> (ScoreMatches(V, snapshot) /\ CountMatches(V, snapshot))) ]_vars

OneUnitOff(a, b) ==
    \E i \in 1 .. 3 :
        /\ a[i] - b[i] \in {-1, 1}
        /\ \A j \in (1 .. 3) \ {i} : a[j] = b[j]

\* the last page of a feasible candidate is up, and its claimed score is one unit off
C4_Witness ==
    /\ VerifyingSolutionPage = Some(0)
    /\ ticks = Pages - 1
    /\ CandidateFeasible(V, snapshot)
    /\ CountMatches(V, snapshot)
    /\ OneUnitOff(Unwrap(VerifyingSolutionScore), CandidateScore(V, snapshot))

(***************************************************************************)
(* C5. Finalize mismatch discards: when every page passed but the          *)
(* recomputed score or the winner count differs from what was claimed or   *)
(* desired, the finalizing tick kills the tracker, empties the scratch     *)
(* slot and the backings, does not flip the pointer, and leaves the queued *)
(* score and every page of the valid slot as they were.                    *)
(***************************************************************************)
C5_MismatchDiscards ==
    [][ (/\ VerifyingSolutionPage = Some(0)
         /\ CandidateFeasible(V, snapshot)
         /\ ~(ScoreMatches(V, snapshot) /\ CountMatches(V, snapshot))) =>
          /\ TrackerIdle(V)'
          /\ ScratchEmpty(Q)'
          /\ QueuedValidVariant' = QueuedValidVariant
          /\ QueuedSolutionScore' = QueuedSolutionScore
          /\ Slot(Q, valid(Q))' = Slot(Q, valid(Q))
          /\ lastRound' = "reject" ]_vars

\* a candidate was rejected at finalization while a solution was queued
C5_Witness ==
    /\ lastRound = "reject"
    /\ ticks = Pages
    /\ QueuedSolutionScore /= None
    /\ DOMAIN Slot(Q, valid(Q)) = PageRange

(***************************************************************************)
(* C6. Successful round: for a sealed candidate whose pages all pass and   *)
(* whose claimed score S is the recomputed one, while fewer than Pages     *)
(* ticks have passed the queued solution is still the one seen at seal and *)
(* each tick moves the cursor down by one; the tick number Pages makes the *)
(* queued score Some(S) and the valid slot the candidate's Pages pages,    *)
(* leaves scratch slot and backings empty and the tracker idle.            *)
(***************************************************************************)
C6_SuccessfulRound ==
    [][ (exists(V) /\ CandidateCorrect(V, snapshot)) =>
          /\ Some(QueuedView(Q)) = sealedView
          /\ VerifyingSolutionPage = Some(msp - ticks)
          /\ IF ticks = Pages - 1
             THEN /\ ticks' = Pages
                  /\ QueuedSolutionScore' = VerifyingSolutionScore
                  /\ QueuedView(Q)' = CandidateView(V, snapshot)
                  /\ DOMAIN (Slot(Q, valid(Q))') = PageRange
                  /\ ScratchEmpty(Q)'
                  /\ TrackerIdle(V)'
                  /\ lastRound' = "accept"
             ELSE /\ ticks' = ticks + 1
                  /\ VerifyingSolutionPage' = Some(msp - ticks')
                  /\ VerifyingSolutionScore' = VerifyingSolutionScore
                  /\ VerifyingSolutionStorage' = VerifyingSolutionStorage
                  /\ QueuedSolutionScore' = QueuedSolutionScore
                  /\ QueuedView(Q)' = QueuedView(Q) ]_vars

\* three submitted pages with the correct score were promoted by the third tick
C6_Witness ==
    /\ lastRound = "accept"
    /\ ticks = Pages
    /\ QueuedSolutionScore = Some(<<4, 10, 52>>)
    /\ TrackerIdle(V)

C8_RejectedSealLeavesNoTrace ==
    [][ \A claimed_score \in ScorePool :
          ( /\ ~exists(V)
            /\ ~ensure_score_quality(Q, MinimumUntrustedScore, claimed_score)
            /\ Seal(claimed_score) )
          => /\ seal_unverified_solution(V, Q, MinimumUntrustedScore, claimed_score).ret = "Err"
             /\ TrackerIdle(V)'
             /\ ~exists(V)'
             /\ current_page(V)' = None
             /\ UNCHANGED <<queuedVars, MinimumUntrustedScore>> ]_vars

\* a seal was turned down by the gate while a solution is queued and a floor is set
C8_Witness ==
    /\ lastRound = "seal_rejected"
    /\ TrackerIdle(V)
    /\ QueuedSolutionScore /= None
    /\ MinimumUntrustedScore /= None

(***************************************************************************)
(* C9. AlreadySealed rejections mutate nothing: while a sealed candidate   *)
(* exists, put_page with any page and seal with any score fail and return  *)
(* the tracker as it was (pages, cursor, claimed score), whether or not    *)
(* the score would pass the gate; over such a call the tracker, both       *)
(* slots, valid variant, backings and queued score do not change.          *)
(***************************************************************************)
C9_AlreadySealedMutatesNothing ==
    /\ [](exists(V) =>
            /\ \A page_index \in PageRange, page_solution \in SolutionPool :
                 put_page(V, page_index, page_solution) = [ret |-> "Err", v |-> V]
            /\ \A claimed_score \in ScorePool :
                 seal_unverified_solution(V, Q, MinimumUntrustedScore, claimed_score)
                     = [ret |-> "Err", v |-> V])
    /\ [][ (exists(V) /\ (Submit \/ SealAny))
             => UNCHANGED <<verifyingVars, queuedVars, MinimumUntrustedScore>> ]_vars

\* a sealed candidate with pages, a queued solution, and scores on both sides of the gate
C9_Witness ==
    /\ exists(V)
    /\ VerifyingSolutionStorage /= EmptyMap
    /\ QueuedSolutionScore /= None
    /\ \E claimed_score \in ScorePool :
         ~ensure_score_quality(Q, MinimumUntrustedScore, claimed_score)
    /\ \E claimed_score \in ScorePool :
         ensure_score_quality(Q, MinimumUntrustedScore, claimed_score)

(***************************************************************************)
(* C10. Idempotent discard: with no cursor the hook returns at once and    *)
(* hands back tracker and store as they were; a tick in such a state       *)
(* changes neither the tracker, nor the slots, valid variant, backings and *)
(* queued score, nor the floor, so any number of ticks in a row leave the  *)
(* state where it was.                                                     *)
(***************************************************************************)
C10_IdleTickNoOp ==
    /\ [](VerifyingSolutionPage = None =>
            \A debug \in BOOLEAN :
                on_initialize(V, Q, snapshot, debug) = [branch |-> "idle", v |-> V, q |-> Q])
    /\ [][ (VerifyingSolutionPage = None /\ Tick)
             => UNCHANGED <<verifyingVars, queuedVars, MinimumUntrustedScore, snapshot,
                            trapped>> ]_vars

\* idle after an accepted round, with unsealed pages waiting, a queued solution and a floor
C10_Witness ==
    /\ VerifyingSolutionPage = None
    /\ VerifyingSolutionStorage /= EmptyMap
    /\ QueuedSolutionScore /= None
    /\ MinimumUntrustedScore /= None
    /\ lastRound = "accept"

(***************************************************************************)
(* C11. Score-quality gate: a score passes ensure_score_quality exactly    *)
(* when (a) no score is queued or it betters the queued one by the         *)
(* improvement threshold, and (b) no floor is set or it strictly betters   *)
(* the floor with zero tolerance.  A score equal to the queued score or to *)
(* the floor is turned down; with neither set every score passes; a seal   *)
(* on an unsealed tracker succeeds exactly when the gate passes.           *)
(***************************************************************************)
GatePool == ScorePool \cup {EmergencyScore} \cup {Unwrap(f) : f \in FloorPool \ {None}}

C11_ScoreQualityGate ==
    \A score \in GatePool :
        LET passes == ensure_score_quality(Q, MinimumUntrustedScore, score)
            a == \/ QueuedSolutionScore = None
                 \/ is_score_better(score, Unwrap(QueuedSolutionScore), FALSE)
            b == \/ MinimumUntrustedScore = None
                 \/ is_score_better(score, Unwrap(MinimumUntrustedScore), TRUE)
        IN  /\ passes <=> (a /\ b)
            /\ QueuedSolutionScore = Some(score) => ~passes
            /\ MinimumUntrustedScore = Some(score) => ~passes
            /\ (QueuedSolutionScore = None /\ MinimumUntrustedScore = None) => passes
            /\ ~exists(V) =>
                 (seal_unverified_solution(V, Q, MinimumUntrustedScore, score).ret = "Ok"
                      <=> passes)

\* a seal was turned down with a score queued and a floor set, one pool score passing
\* both, one passing the floor but not bettering the queued score
C11_Witness ==
    /\ lastRound = "seal_rejected"
    /\ QueuedSolutionScore /= None
    /\ MinimumUntrustedScore /= None
    /\ \E score \in GatePool : ensure_score_quality(Q, MinimumUntrustedScore, score)
    /\ \E score \in GatePool :
         /\ is_score_better(score, Unwrap(MinimumUntrustedScore), TRUE)
         /\ ~is_score_better(score, Unwrap(QueuedSolutionScore), FALSE)

(***************************************************************************)
(* C12. Quality at finalize.  A step promotes a candidate when the tracker *)
(* goes from sealed to Idle with the round recorded as accepted.           *)
(***************************************************************************)
PromotionStep == exists(V) /\ ~exists(V)' /\ lastRound' = "accept"

\* C12 as claimed: whenever a tick promotes a candidate, the promoted score
\* passes both quality conditions against the queued score it replaces and the
\* floor as they are at the finalizing tick.
C12_RevalidatedAtFinalize ==
    [][ PromotionStep =>
          ensure_score_quality(Q, MinimumUntrustedScore, Unwrap(QueuedSolutionScore')) ]_vars

\* C12 as amended: whenever a tick promotes a candidate, the promoted score is
\* the score claimed at seal, and that score passed both quality conditions
\* against the queued score and the floor as they were when the candidate was
\* sealed; if neither has changed since, it passes them at the finalizing tick
\* too.  Nothing is compared with a queued score or floor set after the seal.
C12_QualityCheckedAtSeal ==
    [][ PromotionStep =>
          /\ QueuedSolutionScore' = VerifyingSolutionScore
          /\ sealedView /= None
          /\ LET claimed == Unwrap(VerifyingSolutionScore)
                 queuedAtSeal == Unwrap(sealedView).score
             IN  /\ \/ queuedAtSeal = None
                    \/ is_score_better(claimed, Unwrap(queuedAtSeal), FALSE)
                 /\ \/ sealedFloor = None
                    \/ is_score_better(claimed, Unwrap(sealedFloor), TRUE)
                 /\ (QueuedSolutionScore = queuedAtSeal /\ MinimumUntrustedScore = sealedFloor)
                      => ensure_score_quality(Q, MinimumUntrustedScore, claimed) ]_vars

\* the next tick promotes a candidate whose score no longer passes the gate: the queued
\* score and the floor were both changed after the seal
C12_Witness ==
    /\ exists(V)
    /\ sealedView /= None
    /\ \A debug \in BOOLEAN : on_initialize(V, Q, snapshot, debug).branch = "accept"
    /\ QueuedSolutionScore /= Unwrap(sealedView).score
    /\ MinimumUntrustedScore /= sealedFloor
    /\ ~ensure_score_quality(Q, MinimumUntrustedScore, Unwrap(VerifyingSolutionScore))

(***************************************************************************)
(* C13. Valid-slot invariant.  PagesScore is the score final_score would   *)
(* compute from the per-target totals of a map of pages of supports.       *)
(***************************************************************************)
PagesScore(m) ==
    final_score([backings |->
        [p \in DOMAIN m |-> [i \in 1 .. Len(m[p]) |-> <<m[p][i][1], m[p][i][2].total>>]]]).score
ValidSlotScore(q) == PagesScore(Slot(q, valid(q)))
ValidSlotConsistent(q) == q.score /= None => q.score = Some(ValidSlotScore(q))

\* what a forced write leaves in the valid slot: the pages of set_emergency_solution,
\* or the single page of force_set_single_page_valid
ForcedSlots ==
    {InsertAll(EmptyMap, pagify(paged, Pages)) : paged \in {x \in EmergencyPool : Len(x) = Pages}}
      \cup {MapInsert(EmptyMap, page, EmergencySupports(1)[1]) : page \in {0, msp}}
\* the store holds a forced write whose score is not the one its pages add up to
ForcedUnchecked(q) ==
    /\ Slot(q, valid(q)) \in ForcedSlots
    /\ \E score \in ForceScorePool : q.score = Some(score) /\ score /= ValidSlotScore(q)

\* C13 as claimed: in every reachable state with a queued score, that score is
\* the one the pages of the valid slot add up to, after any sequence of
\* submit_page, seal, tick, force_set_valid and force_set_single_page_valid.
C13_ValidSlotInvariant == ValidSlotConsistent(Q)

\* C13 as amended: in every reachable state with a queued score, that score is
\* the one the pages of the valid slot add up to, unless score and valid slot
\* are those of a force_set_valid or force_set_single_page_valid that was handed
\* a score its pages do not add up to: the two forced writes store the given
\* score unchecked, submit_page, seal and tick never break the equality.
C13_ValidSlotKeptByCheckedWrites == ValidSlotConsistent(Q) \/ ForcedUnchecked(Q)

\* an accepted round and a forced write with a matching score, one after the other
C13_Witness ==
    /\ lastRound = "accept"
    /\ QueuedSolutionScore = Some(EmergencyScore)
    /\ ValidSlotConsistent(Q)
    /\ DOMAIN Slot(Q, valid(Q)) = PageRange

(***************************************************************************)
(* C14. Administrative preemption.  A round in flight has been cut across  *)
(* when what the readers see is no longer what it was at the seal, or the  *)
(* backings are no longer those of the pages checked so far: only          *)
(* QueuedSolution::kill, set_emergency_solution and                        *)
(* force_set_single_page_valid do that between two ticks.                  *)
(***************************************************************************)
CutAcross ==
    /\ exists(V)
    /\ VerifyingSolutionPage /= None
    /\ \/ Some(QueuedView(Q)) /= sealedView
       \/ DOMAIN QueuedSolutionBackings /= {p \in PageRange : p > Unwrap(VerifyingSolutionPage)}

\* C14 as claimed: once a force-clear or force-replace of the store has cut
\* across a verification in flight, the verification is preempted: no later
\* tick moves the cursor on, and no candidate is promoted.
C14_AdministrativePreemption ==
    [][ CutAcross =>
          /\ exists(V)' => VerifyingSolutionPage' = VerifyingSolutionPage
          /\ ~PromotionStep ]_vars

(***************************************************************************)
(* C15. The place of the pointer flip among the writes of                  *)
(* finalize_correct.  FlipAt is the first write after which the pointer    *)
(* differs from what it was on entry.                                      *)
(***************************************************************************)
FlipAt(q, writes) ==
    LET flipped == {k \in 1 .. Len(writes) : writes[k].variant /= q.variant}
    IN  IF flipped = {} THEN 0 ELSE CHOOSE k \in flipped : \A j \in flipped : k <= j

\* C15 as claimed: within finalize_correct the flip is the last write; score,
\* backings and old valid slot are all written before it and nothing after.
C15_FlipIsLastWrite ==
    \A score \in ScorePool :
        LET writes == finalize_correct_writes(Q, score)
        IN  FlipAt(Q, writes) = Len(writes)

\* C15 as amended: within finalize_correct the flip is the first write; the
\* queued-score write, the clearing of the backings and the clearing of the
\* old valid slot (by then the scratch slot) all follow it; a promoting tick
\* leaves the pointer flipped, the pages it had checked (and page 0, checked
\* by that tick) in the valid slot and the other slot empty.
C15_FlipIsFirstWrite ==
    /\ [](\A score \in ScorePool :
            LET writes == finalize_correct_writes(Q, score)
                last == writes[Len(writes)]
            IN  /\ FlipAt(Q, writes) = 1
                /\ writes[1] = [Q EXCEPT !.variant = other(Q.variant)]
                /\ \A k \in 1 .. Len(writes) : writes[k].variant = other(Q.variant)
                /\ last.score = Some(score)
                /\ last.backings = EmptyMap
                /\ Slot(last, valid(Q)) = EmptyMap
                /\ Slot(last, invalid(Q)) = Slot(Q, invalid(Q))
                /\ last = finalize_correct(Q, score))
    /\ [][ PromotionStep =>
             /\ QueuedValidVariant' = other(QueuedValidVariant)
             /\ DOMAIN (Slot(Q, valid(Q))') = DOMAIN Slot(Q, invalid(Q)) \cup {0}
             /\ \A p \in DOMAIN Slot(Q, invalid(Q)) \ {0} :
                    (Slot(Q, valid(Q))')[p] = Slot(Q, invalid(Q))[p]
             /\ Slot(Q, invalid(Q))' = EmptyMap ]_vars

\* the next tick promotes a candidate over a queued solution whose slot is then cleared
C15_Witness ==
    /\ \A debug \in BOOLEAN : on_initialize(V, Q, snapshot, debug).branch = "accept"
    /\ QueuedSolutionScore /= None
    /\ Slot(Q, valid(Q)) /= EmptyMap

(***************************************************************************)
(* C16. The tracker after a successful seal.                               *)
(***************************************************************************)
HighestPagePresent(v) == CHOOSE p \in DOMAIN v.storage : \A r \in DOMAIN v.storage : r <= p

\* C16 as claimed: after a successful seal(s) the claimed score is s and the
\* cursor is the highest page index among the pages submitted, whichever
\* pages were submitted.
C16_CursorAtHighestPresent ==
    [][ \A claimed_score \in ScorePool :
          (~exists(V) /\ Seal(claimed_score) /\ exists(V)')
          => /\ VerifyingSolutionScore' = Some(claimed_score)
             /\ VerifyingSolutionStorage /= EmptyMap
                  => VerifyingSolutionPage' = Some(HighestPagePresent(V)) ]_vars

\* C16 as amended: after a successful seal(s) the claimed score is s, the
\* submitted pages are as they were, and the cursor is msp, the highest page
\* index of the configuration, whichever pages were submitted, none included;
\* it is the highest index present only when page msp was submitted.
C16_CursorAtMsp ==
    [][ \A claimed_score \in ScorePool :
          (~exists(V) /\ Seal(claimed_score) /\ exists(V)')
          => /\ VerifyingSolutionScore' = Some(claimed_score)
             /\ VerifyingSolutionStorage' = VerifyingSolutionStorage
             /\ VerifyingSolutionPage' = Some(msp)
             /\ VerifyingSolutionStorage /= EmptyMap
                  => (VerifyingSolutionPage' = Some(HighestPagePresent(V))
                        <=> msp \in DOMAIN VerifyingSolutionStorage) ]_vars

\* just sealed with page 0 alone submitted: the cursor is at msp
C16_Witness ==
    /\ exists(V)
    /\ ticks = 0
    /\ DOMAIN VerifyingSolutionStorage = {0}
    /\ VerifyingSolutionPage = Some(msp)

(***************************************************************************)
(* C17. Pages of a sealed candidate are verified in strictly descending    *)
(* order, one per tick: with k - 1 ticks taken since the seal the cursor   *)
(* is at page P - k and the pages checked so far are exactly those above   *)
(* it, each once; the k-th tick checks page P - k and no other: if the     *)
(* page passes and is not page 0, the tick adds that page's supports to    *)
(* the scratch slot and its backings, leaves the other pages as they were  *)
(* and lowers the cursor by exactly 1; the round ends only on a failing    *)
(* page or on page 0.                                                      *)
(***************************************************************************)
C17_DescendingOnePagePerTick ==
    /\ [](exists(V) =>
            /\ VerifyingSolutionPage = Some(Pages - (ticks + 1))
            /\ DOMAIN QueuedSolutionBackings
                   = {p \in PageRange : p > Unwrap(VerifyingSolutionPage)}
            /\ DOMAIN Slot(Q, invalid(Q)) = DOMAIN QueuedSolutionBackings)
    /\ [][ exists(V) =>
             LET n == Unwrap(VerifyingSolutionPage)
                 checked == CandidatePage(V, snapshot, n)
             IN  IF exists(V)'
                 THEN /\ n > 0
                      /\ checked.ok
                      /\ VerifyingSolutionPage' = Some(n - 1)
                      /\ ticks' = ticks + 1
                      /\ Slot(Q, invalid(Q))' = MapInsert(Slot(Q, invalid(Q)), n, checked.val)
                      /\ DOMAIN QueuedSolutionBackings' = DOMAIN QueuedSolutionBackings \cup {n}
                      /\ \A p \in DOMAIN QueuedSolutionBackings :
                             QueuedSolutionBackings'[p] = QueuedSolutionBackings[p]
                      /\ VerifyingSolutionStorage' = VerifyingSolutionStorage
                 ELSE /\ n = 0 \/ ~checked.ok
                      /\ ticks' = ticks + 1 ]_vars

\* two ticks after the seal of a candidate of three pages: pages 2 and 1 are checked,
\* the cursor is at page 0
C17_Witness ==
    /\ exists(V)
    /\ DOMAIN VerifyingSolutionStorage = PageRange
    /\ ticks = 2
    /\ VerifyingSolutionPage = Some(0)
    /\ DOMAIN QueuedSolutionBackings = {1, 2}
    /\ \E p \in {1, 2} : QueuedSolutionBackings[p] /= << >>

(***************************************************************************)
(* C18. The scratch slot is never externally visible: the two readers      *)
(* return the queued score and the page of the slot valid_variant names,   *)
(* whatever the scratch slot and the backings hold; set_invalid_page, with *)
(* any page and any supports, and clear_invalid leave what both readers    *)
(* return unchanged for every page index.                                  *)
(***************************************************************************)
SupportsPool == {<< >>, EmergencySupports(1)[1]}
ScratchPool == {EmptyMap, MapInsert(EmptyMap, 0, EmergencySupports(1)[1]),
                [p \in PageRange |-> EmergencySupports(1)[1]]}

C18_ScratchNeverVisible ==
    /\ queued_solution(Q) = QueuedSolutionScore
    /\ \A i \in PageRange :
         get_queued_solution_page(Q, i)
             = IF QueuedValidVariant = "X"
               THEN (IF i \in DOMAIN QueuedSolutionX THEN Some(QueuedSolutionX[i]) ELSE None)
               ELSE (IF i \in DOMAIN QueuedSolutionY THEN Some(QueuedSolutionY[i]) ELSE None)
    /\ \A scratch \in ScratchPool, backings \in ScratchPool :
         QueuedView([WithSlot(Q, invalid(Q), scratch) EXCEPT !.backings = backings])
             = QueuedView(Q)
    /\ \A page \in PageRange, supports \in SupportsPool :
         QueuedView(set_invalid_page(Q, page, supports)) = QueuedView(Q)
    /\ QueuedView(clear_invalid(Q)) = QueuedView(Q)

\* a round in flight beside a queued solution: the scratch slot holds a page the valid
\* slot does not, and the other way round
C18_Witness ==
    /\ exists(V)
    /\ QueuedSolutionScore /= None
    /\ \E i \in PageRange : get_invalid_page(Q, i) /= None /\ get_queued_solution_page(Q, i) = None
    /\ \E i \in PageRange : get_invalid_page(Q, i) = None /\ get_queued_solution_page(Q, i) /= None

(***************************************************************************)
(* C19. set_emergency_solution is guarded: with an origin that is not      *)
(* ForceOrigin, with a phase that is not Emergency (CallNotAllowed), or    *)
(* with a number of pages other than the configured one (WrongPageCount)   *)
(* it fails and hands the store back as it was; it writes only when all    *)
(* three checks pass, and then it returns Ok; the call touches nothing but  *)
(* the store.                                                              *)
(***************************************************************************)
C19_EmergencyGuarded ==
    \A origin_ok \in BOOLEAN, is_emergency \in BOOLEAN, paged \in EmergencyPool,
       score \in ForceScorePool :
        LET r == set_emergency_solution(Q, origin_ok, is_emergency, paged, score)
            pass == origin_ok /\ is_emergency /\ Len(paged) = Pages
        IN  /\ ~origin_ok => r.ret = "BadOrigin"
            /\ (origin_ok /\ ~is_emergency) => r.ret = "CallNotAllowed"
            /\ (origin_ok /\ is_emergency /\ Len(paged) /= Pages) => r.ret = "WrongPageCount"
            /\ pass <=> r.ret = "Ok"
            /\ ~pass => r.q = Q
            /\ pass => r.q = force_set_valid(Q, paged, score) /\ r.q.score = Some(score)

\* an emergency solution was set beside a round in flight; the pool holds a call with the
\* wrong page count
C19_Witness ==
    /\ exists(V)
    /\ QueuedSolutionScore = Some(EmergencyScore)
    /\ Slot(Q, valid(Q)) = InsertAll(EmptyMap, pagify(EmergencySupports(Pages), Pages))
    /\ \E paged \in EmergencyPool : Len(paged) /= Pages

(***************************************************************************)
(* C20. After a successful set_emergency_solution(pages, score) the        *)
(* readers see score and, at every index i of 0 .. P-1, pages[i], and the  *)
(* valid slot holds no other page; nothing is checked against the          *)
(* snapshot (the pages of the pool back target 10 with more than voter 1   *)
(* has at stake, and the call succeeds with no snapshot at all); the       *)
(* pointer, the scratch slot, the backings and the tracker are as before.  *)
(***************************************************************************)
C20_EmergencySolutionQueued ==
    /\ [](\A paged \in {x \in EmergencyPool : Len(x) = Pages}, score \in ForceScorePool :
            LET r == set_emergency_solution(Q, TRUE, TRUE, paged, score)
            IN  /\ r.ret = "Ok"
                /\ queued_solution(r.q) = Some(score)
                /\ \A i \in PageRange : get_queued_solution_page(r.q, i) = Some(paged[i + 1])
                /\ DOMAIN Slot(r.q, valid(r.q)) = PageRange
                /\ valid(r.q) = valid(Q)
                /\ Slot(r.q, invalid(r.q)) = Slot(Q, invalid(Q))
                /\ r.q.backings = Q.backings)
    /\ [][ SetEmergencySolution(TRUE, TRUE, EmergencySupports(Pages), EmergencyScore)
             => /\ QueuedSolutionScore' = Some(EmergencyScore)
                /\ \A i \in PageRange :
                       get_queued_solution_page(Q, i)' = Some(EmergencySupports(Pages)[i + 1])
                /\ Slot(Q, invalid(Q))' = Slot(Q, invalid(Q))
                /\ UNCHANGED <<verifyingVars, QueuedValidVariant, QueuedSolutionBackings,
                               MinimumUntrustedScore, snapshot>> ]_vars

\* the emergency solution is queued while a round is in flight with pages in the scratch
\* slot and their backings
C20_Witness ==
    /\ QueuedSolutionScore = Some(EmergencyScore)
    /\ \A i \in PageRange : get_queued_solution_page(Q, i) = Some(EmergencySupports(Pages)[i + 1])
    /\ exists(V)
    /\ Slot(Q, invalid(Q)) /= EmptyMap
    /\ QueuedSolutionBackings /= EmptyMap

(***************************************************************************)
(* The page check (feasibility_check_page), on every snapshot of           *)
(* SnapshotPool and every page solution of FeasSolutionPool.               *)
(***************************************************************************)
\* what the check of one page reads: the targets and that page's voters
PageSnapshotPresent(snap, p) == targets(snap) /= None /\ voters(snap, p) /= None
\* the index pairs of a page solution measured against the snapshot, by position
TargetIndicesInRange(snap, sol) ==
    \A i \in 1 .. Len(sol) : sol[i][2] \in 0 .. Len(Unwrap(targets(snap))) - 1
VoterIndicesInRange(snap, sol, p) ==
    \A i \in 1 .. Len(sol) : sol[i][1] \in 0 .. Len(Unwrap(voters(snap, p))) - 1
\* some voter of the page backs a target outside the targets recorded for it
StrayVote(snap, sol, p) ==
    \E i \in 1 .. Len(sol) :
        Unwrap(targets(snap))[sol[i][2] + 1] \notin Unwrap(voters(snap, p))[sol[i][1] + 1][3]
\* the page the tracker holds at its cursor
CursorPage == Unwrap(VerifyingSolutionPage)
PageAtCursor == get_page(V, CursorPage)

\* C21: the check of page p answers SnapshotUnavailable whenever the targets or the
\* voters of page p are missing; when both are there, the answer is the one given
\* under the full snapshot, whatever else (the voters of another page, the desired
\* number of targets) is missing.
C21_SnapshotOfThePageOnly ==
    \A sol \in FeasSolutionPool, p \in PageRange :
        LET r == feasibility_check_page(snapshot, sol, p)
        IN  /\ ~PageSnapshotPresent(snapshot, p) => r = Err("SnapshotUnavailable")
            /\ PageSnapshotPresent(snapshot, p)
                 => /\ r = feasibility_check_page(FullSnapshot, sol, p)
                    /\ r.err /= "SnapshotUnavailable"

\* the voters of page 0 are missing and the page at the top of a sealed solution has
\* been checked and stored all the same; the check of page 0 is unavailable
C21_Witness ==
    /\ targets(snapshot) /= None
    /\ voters(snapshot, 0) = None
    /\ exists(V)
    /\ VerifyingSolutionPage = Some(msp - 1)
    /\ msp \in DOMAIN Slot(Q, invalid(Q))
    /\ Slot(Q, invalid(Q))[msp] /= << >>
    /\ feasibility_check_page(snapshot, SolA, 0) = Err("SnapshotUnavailable")
    /\ feasibility_check_page(snapshot, SolA, msp).ok

\* C22: with the snapshot of the page present, a page solution that uses any target
\* index outside the target snapshot is rejected with InvalidWinner, also when one of
\* its voter indices is out of range or one of its votes is not eligible.
C22_InvalidWinnerFirst ==
    \A sol \in FeasSolutionPool, p \in PageRange :
        (PageSnapshotPresent(snapshot, p) /\ ~TargetIndicesInRange(snapshot, sol))
            => feasibility_check_page(snapshot, sol, p) = Err("InvalidWinner")

\* the tracker's cursor is on a page with a bad target index next to a stray vote
C22_Witness ==
    /\ exists(V)
    /\ IsSome(VerifyingSolutionPage)
    /\ PageSnapshotPresent(snapshot, CursorPage)
    /\ PageAtCursor = Some(SolBadWinnerAndVote)
    /\ feasibility_check_page(snapshot, SolBadWinnerAndVote, CursorPage) = Err("InvalidWinner")
    /\ feasibility_check_page(snapshot, SolBadBoth, CursorPage) = Err("InvalidWinner")

\* C23: with every target index in range, a page solution that uses a voter index
\* outside the page's voter snapshot is rejected with SolutionInvalidIndex: it is
\* not accepted and it is not reported as InvalidVote.
C23_VoterIndexOutOfRange ==
    \A sol \in FeasSolutionPool, p \in PageRange :
        (/\ PageSnapshotPresent(snapshot, p)
         /\ TargetIndicesInRange(snapshot, sol)
         /\ ~VoterIndicesInRange(snapshot, sol, p))
            => feasibility_check_page(snapshot, sol, p) = Err("SolutionInvalidIndex")

\* the tracker's cursor is on a page with a bad voter index next to a stray vote
C23_Witness ==
    /\ exists(V)
    /\ IsSome(VerifyingSolutionPage)
    /\ PageSnapshotPresent(snapshot, CursorPage)
    /\ PageAtCursor = Some(SolBadVoterAndVote)
    /\ feasibility_check_page(snapshot, SolBadVoterAndVote, CursorPage)
         = Err("SolutionInvalidIndex")

\* C24: with every index in range, the check answers InvalidVote exactly when some
\* voter of the page backs a target that is not among the targets recorded for that
\* voter in the page's snapshot.
C24_InvalidVoteIffStray ==
    \A sol \in FeasSolutionPool, p \in PageRange :
        (/\ PageSnapshotPresent(snapshot, p)
         /\ TargetIndicesInRange(snapshot, sol)
         /\ VoterIndicesInRange(snapshot, sol, p))
            => (feasibility_check_page(snapshot, sol, p).err = "InvalidVote"
                  <=> StrayVote(snapshot, sol, p))

\* the tracker's cursor is on a page with a stray vote, rejected; an eligible page
\* solution is accepted on the same page
C24_Witness ==
    /\ exists(V)
    /\ IsSome(VerifyingSolutionPage)
    /\ PageSnapshotPresent(snapshot, CursorPage)
    /\ PageAtCursor = Some(SolBadVote)
    /\ StrayVote(snapshot, SolBadVote, CursorPage)
    /\ feasibility_check_page(snapshot, SolBadVote, CursorPage) = Err("InvalidVote")
    /\ ~StrayVote(snapshot, SolA, CursorPage)
    /\ feasibility_check_page(snapshot, SolA, CursorPage).ok

(***************************************************************************)
(* MaxTotalBackingsPerTarget.                                              *)
(***************************************************************************)
\* the voters that back target t in a map of pages of supports
BackersOf(m, t) ==
    UNION {{m[p][k][2].voters[j][1] : j \in 1 .. Len(m[p][k][2].voters)} :
             <<p, k>> \in {x \in (DOMAIN m) \X (1 .. Len(SnapshotTargets)) :
                             x[2] <= Len(m[x[1]]) /\ m[x[1]][x[2]][1] = t}}

\* C25: no candidate is promoted in which some target is backed, over all pages, by
\* more than MaxTotalBackingsPerTarget voters: the valid slot, which only promotions
\* write here, never holds such a solution.
C25_MaxTotalBackingsEnforced ==
    \A t \in Range(SnapshotTargets) :
        Cardinality(BackersOf(Slot(Q, valid(Q)), t)) <= MaxTotalBackingsPerTarget

BackingPositions(b, t) ==
    {x \in (DOMAIN b) \X (1 .. Len(SnapshotTargets)) :
        x[2] <= Len(b[x[1]]) /\ b[x[1]][x[2]][1] = t}
RECURSIVE PlainSum(_, _)
PlainSum(b, positions) ==
    IF positions = {} THEN 0
    ELSE LET x == CHOOSE y \in positions : TRUE
         IN  b[x[1]][x[2]][2] + PlainSum(b, positions \ {x})
\* the total of target t over every page of backings, capped where the sums saturate
BackingTotal(b, t) == Min(PlainSum(b, BackingPositions(b, t)), BalanceCap)
BackedTargets(b) == {t \in Range(SnapshotTargets) : BackingPositions(b, t) /= {}}
\* backings whose totals meet the cap, next to the ones the store holds
HeavyBackings ==
    {(1 :> << <<10, 600>>, <<20, 1>> >>) @@ (2 :> << <<10, 700>> >>),
     (0 :> << <<20, 999>> >>) @@ (1 :> << <<20, 1>> >>) @@ (2 :> << <<20, 1>>, <<10, 5>> >>)}

\* C28: final_score gives every target the saturating sum of its backings over all
\* pages of backings, counts the distinct targets of all pages, and evaluates exactly
\* those totals; it returns the two values and writes nothing.  The score a promotion
\* puts in the queue is the one final_score gives for the backings of all pages.
C28_FinalScoreAggregates ==
    /\ [](\A b \in {QueuedSolutionBackings} \cup HeavyBackings :
            LET r == final_score([Q EXCEPT !.backings = b])
                ts == SortedSeq(BackedTargets(b))
            IN  /\ r.count = Cardinality(BackedTargets(b))
                /\ r.score = evaluate([k \in 1 .. Len(ts) |-> BackingTotal(b, ts[k])])
                /\ DOMAIN r = {"score", "count"})
    /\ [][ PromotionStep
             => LET qf == set_invalid_page(Q, 0, CandidatePage(V, snapshot, 0).val)
                    ts == SortedSeq(BackedTargets(qf.backings))
                IN  /\ DOMAIN qf.backings = PageRange
                    /\ QueuedSolutionScore' = Some(final_score(qf).score)
                    /\ final_score(qf).score
                         = evaluate([k \in 1 .. Len(ts) |-> BackingTotal(qf.backings, ts[k])]) ]_vars

\* two pages of backings are stored and some target is backed on both of them: its
\* total is the sum of the two
C28_Witness ==
    /\ exists(V)
    /\ VerifyingSolutionPage = Some(0)
    /\ \E t \in Range(SnapshotTargets) :
           /\ Cardinality({x[1] : x \in BackingPositions(QueuedSolutionBackings, t)}) = 2
           /\ BackingTotal(QueuedSolutionBackings, t) = 3
    /\ final_score(Q).count = 2
    /\ final_score(Q).score = <<3, 6, 18>>

(***************************************************************************)
(* The precondition of final_score.                                        *)
(***************************************************************************)
\* C29: whenever a tick is about to reach finalization (the cursor is at 0 and page 0
\* passes the check), the backings, with the entry the tick writes for page 0, have
\* one entry for each page index: the assertion at the head of final_score holds,
\* whatever submit, seal, tick and administrative operations came before.
C29_FinalScorePreconditionHolds ==
    (/\ exists(V)
     /\ VerifyingSolutionPage = Some(0)
     /\ CandidatePage(V, snapshot, 0).ok)
        => final_score_precondition(set_invalid_page(Q, 0, CandidatePage(V, snapshot, 0).val))

(***************************************************************************)
(* Missing pages.                                                          *)
(***************************************************************************)
\* C30: a tick that finds no page stored at the cursor checks the default solution.
\* With the snapshot of the page there, the check passes with no supports; above
\* page 0 the tick stores that empty page and its empty backing entry in the scratch
\* slot at the cursor's index and lowers the cursor by one, the round going on; at
\* page 0 the round is decided by finalization, accepted or rejected, never failed
\* for the page.
C30_MissingPageLeniency ==
    [][ (/\ Tick
         /\ exists(V)
         /\ IsSome(VerifyingSolutionPage)
         /\ get_page(V, CursorPage) = None
         /\ PageSnapshotPresent(snapshot, CursorPage))
          => /\ feasibility_check_page(snapshot, DefaultSolution, CursorPage) = Ok(<< >>)
             /\ CursorPage > 0
                  => /\ exists(V)'
                     /\ VerifyingSolutionPage' = Some(CursorPage - 1)
                     /\ VerifyingSolutionStorage' = VerifyingSolutionStorage
                     /\ Slot(Q, invalid(Q))' = MapInsert(Slot(Q, invalid(Q)), CursorPage, << >>)
                     /\ QueuedSolutionBackings'
                          = MapInsert(QueuedSolutionBackings, CursorPage, << >>)
                     /\ ticks' = ticks + 1
             /\ CursorPage = 0
                  => /\ ~exists(V)'
                     /\ lastRound' \in {"accept", "reject"}
                     /\ ticks' = Pages ]_vars

\* a candidate sealed with page 0 alone: two ticks have stored an empty page each
\* for the pages it lacks, and the cursor has come down to the one page it has
C30_Witness ==
    /\ exists(V)
    /\ DOMAIN VerifyingSolutionStorage = {0}
    /\ VerifyingSolutionPage = Some(0)
    /\ ticks = Pages - 1
    /\ Slot(Q, invalid(Q)) = [p \in PageRange \ {0} |-> << >>]
    /\ QueuedSolutionBackings = [p \in PageRange \ {0} |-> << >>]

(***************************************************************************)
(* put_page.                                                               *)
(***************************************************************************)
\* C31: on a tracker that is not sealed, put_page(i, d) succeeds for every index and
\* every page solution; afterwards get_page(i) is d whatever stood at i before, the
\* pages at the other indices are as before, and the cursor, the claimed score and
\* the whole store are as before.
C31_PutPageLastWriteWins ==
    /\ [](~exists(V)
            => \A i \in PageRange, d \in SolutionPool :
                 LET r == put_page(V, i, d)
                 IN  /\ r.ret = "Ok"
                     /\ get_page(r.v, i) = Some(d)
                     /\ DOMAIN r.v.storage = DOMAIN V.storage \cup {i}
                     /\ \A j \in DOMAIN V.storage \ {i} : get_page(r.v, j) = get_page(V, j)
                     /\ r.v.page = V.page
                     /\ r.v.score = V.score)
    /\ [][ \A i \in PageRange, d \in SolutionPool :
             (PutPage(i, d) /\ ~exists(V))
               => /\ get_page(V, i)' = Some(d)
                  /\ \A j \in PageRange \ {i} : get_page(V, j)' = get_page(V, j)
                  /\ UNCHANGED <<VerifyingSolutionPage, VerifyingSolutionScore, queuedVars>> ]_vars

\* a tracker that is loading holds two different pages; writing the second page's
\* solution over the first replaces it
C31_Witness ==
    /\ ~exists(V)
    /\ get_page(V, 0) = Some(SolA)
    /\ get_page(V, 1) = Some(SolB)
    /\ get_page(put_page(V, 0, SolB).v, 0) = Some(SolB)
    /\ get_page(put_page(V, 0, SolB).v, 1) = Some(SolB)
    /\ QueuedSolutionScore /= None

(***************************************************************************)
(* The sealed candidate.                                                   *)
(***************************************************************************)
\* C32: from the seal to the kill of the tracker, no step of submit_page, seal or
\* tick changes a stored page or the claimed score: over a step that starts with a
\* sealed candidate either the pages and the score stay and the cursor stays or goes
\* down by one from above 0, or the tracker is killed whole.
C32_SealedCandidateImmutable ==
    [][ exists(V)
          => \/ /\ VerifyingSolutionStorage' = VerifyingSolutionStorage
                /\ VerifyingSolutionScore' = VerifyingSolutionScore
                /\ \/ VerifyingSolutionPage' = VerifyingSolutionPage
                   \/ /\ IsSome(VerifyingSolutionPage)
                      /\ CursorPage > 0
                      /\ VerifyingSolutionPage' = Some(CursorPage - 1)
             \/ V' = VerifyingSolution_kill(V) ]_vars

\* a sealed candidate with a page at every index, two of them checked already
C32_Witness ==
    /\ exists(V)
    /\ DOMAIN VerifyingSolutionStorage = PageRange
    /\ VerifyingSolutionPage = Some(0)
    /\ ticks = Pages - 1
    /\ \A p \in PageRange : VerifyingSolutionStorage[p] /= DefaultSolution

(***************************************************************************)
(* The page check reads one page.                                          *)
(***************************************************************************)
\* a snapshot that agrees with snap on the targets and on the voters of page p only:
\* the voters of every other page are gone, and so is the desired number of targets
OnlyPage(snap, p) ==
    [targets |-> targets(snap),
     voters  |-> [x \in (DOMAIN snap.voters) \cap {p} |-> snap.voters[x]],
     desired |-> None]
\* the same with the voters of the other pages exchanged for those of page p
OtherPagesAlike(snap, p) ==
    [snap EXCEPT !.voters = [x \in DOMAIN @ |-> IF p \in DOMAIN @ THEN @[p] ELSE @[x]]]

\* C33: the answer of the check for page p is a function of the page solution, the
\* targets and the voters of page p: it is the same under every snapshot that agrees
\* on these two, whatever the tracker and the store hold.  The check writes nothing:
\* a tick that passes a page above 0 leaves the snapshot, the valid slot and the
\* tracker's pages as they were, and the page it stores is the answer of the check.
C33_PageCheckIsPageLocal ==
    /\ [](\A sol \in FeasSolutionPool, p \in PageRange :
            /\ feasibility_check_page(snapshot, sol, p)
                 = feasibility_check_page(OnlyPage(snapshot, p), sol, p)
            /\ feasibility_check_page(snapshot, sol, p)
                 = feasibility_check_page(OtherPagesAlike(snapshot, p), sol, p))
    /\ [][ (exists(V) /\ exists(V)' /\ VerifyingSolutionPage' /= VerifyingSolutionPage)
             => LET r == feasibility_check_page(snapshot, (IF PageAtCursor = None THEN DefaultSolution ELSE Unwrap(PageAtCursor)), CursorPage)
                IN  /\ r.ok
                    /\ Slot(Q, invalid(Q))' = MapInsert(Slot(Q, invalid(Q)), CursorPage, r.val)
                    /\ Slot(Q, valid(Q))' = Slot(Q, valid(Q))
                    /\ snapshot' = snapshot
                    /\ VerifyingSolutionStorage' = VerifyingSolutionStorage ]_vars

\* the snapshot lacks the desired number of targets; the same page solution has been
\* checked on two pages and stored with different supports, each from its own voters
C33_Witness ==
    /\ desired_targets(snapshot) = None
    /\ DOMAIN snapshot.voters = PageRange
    /\ exists(V)
    /\ VerifyingSolutionPage = Some(0)
    /\ get_page(V, 1) = Some(SolA)
    /\ get_page(V, 2) = Some(SolA)
    /\ Slot(Q, invalid(Q)) = [p \in {1, 2} |-> feasibility_check_page(snapshot, SolA, p).val]
    /\ Slot(Q, invalid(Q))[1] /= Slot(Q, invalid(Q))[2]

(***************************************************************************)
(* After a round.                                                          *)
(***************************************************************************)
\* C34: every way a round ends (promotion, a page that fails, a mismatch at
\* finalization, a seal the gate rejects) leaves the tracker with no page, no cursor
\* and no score.  From there a tick does nothing, put_page succeeds for every index,
\* and a seal succeeds exactly when the score passes the quality gate against the
\* queued score and the floor of that moment.
C34_TrackerReusable ==
    /\ [][ (\/ exists(V) /\ ~exists(V)'
            \/ SealAny /\ ~exists(V) /\ ~exists(V)')
             => /\ TrackerIdle(V)'
                /\ lastRound' \in {"accept", "reject", "fail", "seal_rejected"} ]_vars
    /\ [](TrackerIdle(V)
            => /\ \A debug \in BOOLEAN :
                    on_initialize(V, Q, snapshot, debug) = [branch |-> "idle", v |-> V, q |-> Q]
               /\ \A i \in PageRange, d \in SolutionPool : put_page(V, i, d).ret = "Ok"
               /\ \A claimed_score \in ScorePool :
                    seal_unverified_solution(V, Q, MinimumUntrustedScore, claimed_score).ret = "Ok"
                      <=> ensure_score_quality(Q, MinimumUntrustedScore, claimed_score))
    /\ [][ (~exists(V) /\ exists(V)')
             => /\ ensure_score_quality(Q, MinimumUntrustedScore, Unwrap(VerifyingSolutionScore'))
                /\ VerifyingSolutionStorage' = VerifyingSolutionStorage ]_vars

\* a candidate was discarded for a bad page while a solution is queued; the tracker
\* is empty again and the gate lets some scores through and holds others
C34_Witness ==
    /\ lastRound = "fail"
    /\ TrackerIdle(V)
    /\ ScratchEmpty(Q)
    /\ QueuedSolutionScore /= None
    /\ \E claimed_score \in ScorePool :
           seal_unverified_solution(V, Q, MinimumUntrustedScore, claimed_score).ret = "Ok"
    /\ \E claimed_score \in ScorePool :
           seal_unverified_solution(V, Q, MinimumUntrustedScore, claimed_score).ret = "Err"

(***************************************************************************)
(* force_set_single_page_valid.                                            *)
(***************************************************************************)
\* C35: force_set_single_page_valid(page, supports, score) leaves the valid slot with
\* one page, supports at index page, whatever it held before, and the queued score
\* Some(score); the pointer, the scratch slot, the backings and the tracker are as
\* before.
C35_ForceSinglePageReplaces ==
    /\ [](\A page \in PageRange, score \in ForceScorePool :
            LET supports == EmergencySupports(1)[1]
                r == force_set_single_page_valid(Q, page, supports, score)
            IN  /\ DOMAIN Slot(r, valid(r)) = {page}
                /\ get_queued_solution_page(r, page) = Some(supports)
                /\ \A o \in PageRange \ {page} : get_queued_solution_page(r, o) = None
                /\ queued_solution(r) = Some(score)
                /\ valid(r) = valid(Q)
                /\ Slot(r, invalid(r)) = Slot(Q, invalid(Q))
                /\ r.backings = Q.backings)
    /\ [][ \A page \in {0, msp}, score \in ForceScorePool :
             ForceSetSinglePageValid(page, EmergencySupports(1)[1], score)
               => /\ DOMAIN Slot(Q, valid(Q))' = {page}
                  /\ QueuedSolutionScore' = Some(score)
                  /\ Slot(Q, invalid(Q))' = Slot(Q, invalid(Q))
                  /\ UNCHANGED <<verifyingVars, QueuedValidVariant, QueuedSolutionBackings>> ]_vars

\* the single page was forced over a promoted solution of P pages while the next
\* candidate is being verified: the scratch slot and the backings hold its pages
C35_Witness ==
    /\ lastRound = "none"
    /\ exists(V)
    /\ QueuedValidVariant = "X"
    /\ DOMAIN QueuedSolutionX = {msp}
    /\ QueuedSolutionX[msp] = EmergencySupports(1)[1]
    /\ QueuedSolutionScore = Some(EmergencyScore)
    /\ QueuedSolutionY /= EmptyMap
    /\ DOMAIN QueuedSolutionBackings = DOMAIN QueuedSolutionY

(***************************************************************************)
(* The hook completes.                                                     *)
(***************************************************************************)
\* C36: a tick never traps: in every reachable state, under every state of the
\* snapshot, the hook runs to its end, idle, with more pages to go, or with the round
\* accepted, rejected or failed; neither unwrap of finalize_verification fails.
C36_TickNeverTraps ==
    /\ ~trapped
    /\ \A debug \in BOOLEAN :
           on_initialize(V, Q, snapshot, debug).branch
               \in {"idle", "more", "accept", "reject", "fail"}

BackingsOf(supports) == [i \in 1 .. Len(supports) |-> <<supports[i][1], supports[i][2].total>>]

\* C38: between ticks, with a sealed candidate and the cursor at n, the scratch slot
\* and the backings hold the page indices n + 1 .. P - 1 and no other, and the
\* backings of each index are the targets of the supports page of that index, each
\* with its total.
C38_ScratchProgress ==
    exists(V)
      => /\ IsSome(VerifyingSolutionPage)
         /\ DOMAIN Slot(Q, invalid(Q)) = (CursorPage + 1) .. msp
         /\ DOMAIN QueuedSolutionBackings = (CursorPage + 1) .. msp
         /\ \A p \in (CursorPage + 1) .. msp :
                QueuedSolutionBackings[p] = BackingsOf(Slot(Q, invalid(Q))[p])

\* the cursor is at 0 and the two pages above it are in the scratch slot, each with
\* two targets and their totals in the backings
C38_Witness ==
    /\ exists(V)
    /\ VerifyingSolutionPage = Some(0)
    /\ DOMAIN QueuedSolutionBackings = {1, 2}
    /\ \A p \in {1, 2} :
           /\ Len(Slot(Q, invalid(Q))[p]) = 2
           /\ QueuedSolutionBackings[p] = BackingsOf(Slot(Q, invalid(Q))[p])
           /\ \A i \in 1 .. 2 : QueuedSolutionBackings[p][i][2] > 0
    /\ QueuedSolutionScore /= None

(***************************************************************************)
(* The scratch slot between rounds.                                        *)
(***************************************************************************)
\* C39: whenever no sealed candidate exists, after any sequence of submit_page, seal
\* and tick, the scratch slot and the backings are empty; and every page a promotion
\* makes valid is the checked page of the candidate promoted, none left by a
\* candidate before it.
C39_IdleScratchEmpty ==
    /\ [](~exists(V) => (Slot(Q, invalid(Q)) = EmptyMap /\ QueuedSolutionBackings = EmptyMap))
    /\ [][ PromotionStep
             => /\ DOMAIN Slot(Q, valid(Q))' = PageRange
                /\ \A p \in PageRange :
                       Slot(Q, valid(Q))'[p] = CandidatePage(V, snapshot, p).val ]_vars

\* three rounds have ended, the last one discarded: a solution is queued, the tracker
\* is loading the next candidate and nothing is left in the scratch slot
C39_Witness ==
    /\ lastRound \in {"reject", "fail"}
    /\ QueuedValidVariant = "Y"
    /\ QueuedSolutionScore /= None
    /\ ~exists(V)
    /\ VerifyingSolutionStorage /= EmptyMap
    /\ Slot(Q, invalid(Q)) = EmptyMap
    /\ QueuedSolutionBackings = EmptyMap

(***************************************************************************)
(* Loading.                                                                *)
(***************************************************************************)
\* the tracker holds pages and is not sealed
Loading(v) == v.storage /= EmptyMap /\ ~exists(v)

\* C40: a tick while the tracker is loading does nothing: no page is checked (a page
\* that would fail is not discarded), the pages stay and the store stays.  The store
\* is written only in steps that start with a sealed candidate, and the first tick
\* after a seal finds the cursor at the top page.
C40_LoadingTickNoOp ==
    /\ [](Loading(V)
            => \A debug \in BOOLEAN :
                 LET r == on_initialize(V, Q, snapshot, debug)
                 IN  r.branch = "idle" /\ r.v = V /\ r.q = Q)
    /\ []((exists(V) /\ ticks = 0) => VerifyingSolutionPage = Some(msp))
    /\ [][ (Tick /\ Loading(V))
             => UNCHANGED <<verifyingVars, queuedVars, ticks, lastRound>> ]_vars
    /\ [][ (Q' /= Q \/ ticks' > ticks) => exists(V) ]_vars

\* after an accepted round the tracker is loading a candidate whose top page cannot
\* pass the check; ticks leave it alone
C40_Witness ==
    /\ Loading(V)
    /\ lastRound = "accept"
    /\ QueuedSolutionScore /= None
    /\ get_page(V, msp) = Some(SolBadVote)
    /\ ~feasibility_check_page(snapshot, SolBadVote, msp).ok
    /\ on_initialize(V, Q, snapshot, TRUE).branch = "idle"

====
